---- MODULE Spec2Model ----
(***************************************************************************)
(* Gouter: a hand-written HTTP/1.1 server (connection parser, chunked      *)
(* decoder, route matcher, response writer).                               *)
(*                                                                         *)
(* Strings and byte slices of the Go code are sequences of one-character   *)
(* strings, so that strings.Split, HasPrefix, Trim, ParseInt, Itoa ... are *)
(* computed the way the library computes them.                             *)
(*                                                                         *)
(* The module holds several state machines over disjoint groups of         *)
(* variables; each specification keeps the other groups idle:              *)
(*   SpecChunk  chunkedReader.Read driven by a caller that loops to EOF    *)
(*   SpecConn   handleConn: parserConn, parseRoute, handler, Writer        *)
(*   SpecRoute  Router.Route registrations followed by parseRoute          *)
(*   SpecBody   parserConn's body reader selector and the read loop        *)
(*   SpecStore  the header stores (gouter Headers, httpio Headers)         *)
(*   SpecParse  Request.parser as a function of the header block           *)
(*   SpecWS     Request.Upgrade / WebSocketRoute under handleConn          *)
(*   SpecFrame  writeFrame and readFrame on one stream                     *)
(*   SpecDisp   readFrame on one frame of any opcode, with sendPong         *)
(*   SpecReg    Router.Use / Route and Group.Use / Route, then one request  *)
(*   SpecStatic the file handler registered by ServerStatic                 *)
(*   SpecBuff   BuffReader.Read over an underlying io.Reader                *)
(*   SpecRaw    chunkedReader.Read on streams with malformed chunks         *)
(*   SpecLen    readFrame on frames in any of the three length forms        *)
(*   SpecWriter the Writer under a handler: WriteHeader, WriteJson, ...     *)
(*   SpecServe  Run with several connections handled concurrently           *)
(***************************************************************************)
EXTENDS Integers, Sequences, FiniteSets, TLC

VARIABLES
    \* ---- chunked decoder (chunkedReader and its caller) ----
    cmsg,       \* the message the peer encoded (ghost)
    cparts,     \* the chunks the peer sent: their sizes, or as framed by hand (ghost)
    cbuf,       \* len(p): size of the caller's read buffer
    csrc,       \* bytes not yet consumed from cr.r
    cout,       \* octets the caller has collected from Read so far
    cdone,      \* cr.done
    cerr,       \* error returned by the last Read ("" = nil, "EOF", ...)
    \* ---- one accepted connection (handleConn) ----
    pc,         \* position of handleConn
    peer,       \* bytes the peer has still to send
    peerEnd,    \* what the peer does after its last byte: "eof" | "reset"
    buffer,     \* parserConn's bytes.Buffer
    perr,       \* error returned by parserConn ("" = nil)
    req,        \* the parsed *Request (Method, Path, Version, Headers)
    routes,     \* r.handlerList of the router serving the connection
    handler,    \* handler selected by parseRoute (0 = nil)
    ran,        \* the handler function was invoked
    ops,        \* Writer calls made so far, with their outcome, in order (ghost)
    w,          \* the *Writer: code, body, Headers, headersSent
    stream,     \* items written to the net.Conn, in order
    closed,     \* c.Close() has run
    \* ---- router (Route registrations, then parseRoute) ----
    rlist,      \* r.handlerList: pattern -> handler
    rpath,      \* req.Path of the request being routed
    rres,       \* results of parseRoute runs on (rlist, rpath), in order
    \* ---- request body reader (the tail of parserConn, then a reader loop) ----
    bpc,        \* "select" before the reader is installed, then "read"
    bhdr,       \* req.Headers of the parsed request
    btail,      \* initialBody: octets that followed the header terminator
    bwire,      \* the octets that follow initialBody on the wire (ghost)
    bconn,      \* octets the peer still sends on c before closing its side
    bkind,      \* the reader installed as req.Body: "chunked" | "limited" | "tail"
    bpos,       \* octets of initialBody not yet read
    blimit,     \* N of the io.LimitReader over c
    bdone,      \* done of the chunkedReader
    bout,       \* octets the handler has read from req.Body so far
    berr,       \* error of the last Read ("" = nil)
    \* ---- header stores under a sequence of calls ----
    hpc,        \* "run" while calls are made on the stores
    hg,         \* a Headers map of package gouter (conn.go)
    hh,         \* a Headers map of package httpio
    hlog,       \* the calls made on both stores, with their results, in order
    \* ---- Request.parser on a header block ----
    ppc,        \* "input" before the call, "parsed" after it
    pblock,     \* headersByte
    pres,       \* the error returned and the request fields set
    \* ---- a connection whose handler upgrades to WebSocket ----
    wpc,        \* position: "handler" | "session" | "finish" | "closed"
    wreq,       \* req.Headers of the handshake request
    wmode,      \* "route": the handler is WebSocketRoute; "direct": it calls Upgrade itself
    worigin,    \* cfg.CheckOrigin: "none" (nil) | "allow" | "deny"
    ww,         \* the *Writer of the connection
    wstream,    \* items written to the net.Conn, in order
    wclosed,    \* the net.Conn has been closed
    wup,        \* outcome of Upgrade: "" (not called) | "ok" | the error
    wfin,       \* outcome of handleConn's final w.write(): "" | "skipped" | "ok" | "error"
    \* ---- WebSocket frame codec on one stream ----
    fpc,        \* "send" | "recv" | "done"
    fmsg,       \* the message handed to the sender (ghost)
    fkey,       \* masking key of the sender, <<>> for writeFrame (unmasked)
    fnext,      \* octets that follow the frame on the stream (ghost)
    fsrc,       \* octets on the stream not yet consumed
    fres,       \* payload returned by readFrame
    ferr,       \* error returned by readFrame ("" = nil)
    \* ---- readFrame on one frame of any opcode ----
    dpc,        \* "send" | "recv" | "done"
    dop,        \* opcode of the frame the peer sends
    dmsg,       \* payload of that frame (ghost)
    dkey,       \* masking key of the peer, <<>> for an unmasked frame
    dwrite,     \* outcome of the next conn.Write: "ok" | "fail"
    dsrc,       \* octets on the stream not yet consumed
    dres,       \* payload returned by readFrame
    derr,       \* error returned by readFrame ("" = nil)
    dpong,      \* octets the server wrote back
    \* ---- a Router and one Group under Use and Route calls ----
    gpc,        \* "run" while calls are made on the router
    gmws,       \* r.mws
    ggmw,       \* g.mw of the group
    gtable,     \* r.handlerList: pattern -> stored handler
    gdocs,      \* r.docs
    gcalls,     \* the calls made so far, in order (ghost)
    gtrace,     \* functions entered by the last invocation of a stored handler
    \* ---- the file handler registered by ServerStatic ----
    spc,        \* "request" before the handler runs, "served" after it
    sroot,      \* fsRoot as passed to ServerStatic
    sreqpath,   \* r.Path of the request
    scode,      \* status set by w.WriteHeader (0 = none)
    sopen,      \* the path handed to os.Stat / os.Open (<<>> = none)
    \* ---- BuffReader.Read over an underlying io.Reader ----
    upc,        \* "call" | "loop" | "done"
    usrc,       \* octets the underlying reader still holds
    ueof,       \* how the reader reports its end: "after" | "with" the last octets
    ulen,       \* br.len
    umax,       \* br.maxSize
    uread,      \* read
    ubuf,       \* the octets placed in buf so far
    ures,       \* the slice returned
    uerr,       \* the error returned ("" = nil)
    \* ---- Run with several connections, one handleConn goroutine each ----
    kphase,     \* "setup" while the application registers, "serving" once Run accepts
    ktable,     \* r.handlerList, shared by all goroutines
    kmws,       \* r.mws, shared by all goroutines
    kpc,        \* per connection: where its handleConn stands
    kreq,       \* per connection: the *Request parserConn returned
    kw,         \* per connection: the *Writer newWriter returned
    kacc        \* the accesses of the last step: who touched what, and how (ghost)

chunkVars == <<cmsg, cparts, cbuf, csrc, cout, cdone, cerr>>
connVars  == <<pc, peer, peerEnd, buffer, perr, req, routes, handler, ran, ops,
               w, stream, closed>>
routeVars == <<rlist, rpath, rres>>
bodyVars  == <<bpc, bhdr, btail, bwire, bconn, bkind, bpos, blimit, bdone, bout, berr>>
storeVars == <<hpc, hg, hh, hlog>>
parseVars == <<ppc, pblock, pres>>
wsVars    == <<wpc, wreq, wmode, worigin, ww, wstream, wclosed, wup, wfin>>
frameVars == <<fpc, fmsg, fkey, fnext, fsrc, fres, ferr>>
dispVars  == <<dpc, dop, dmsg, dkey, dwrite, dsrc, dres, derr, dpong>>
regVars   == <<gpc, gmws, ggmw, gtable, gdocs, gcalls, gtrace>>
staticVars == <<spc, sroot, sreqpath, scode, sopen>>
buffVars  == <<upc, usrc, ueof, ulen, umax, uread, ubuf, ures, uerr>>
serveVars == <<kphase, ktable, kmws, kpc, kreq, kw, kacc>>
restVars  == <<bodyVars, storeVars, parseVars, wsVars, frameVars,
               dispVars, regVars, staticVars, buffVars, serveVars>>
bodyOthers  == <<chunkVars, connVars, routeVars, storeVars, parseVars, wsVars, frameVars,
                dispVars, regVars, staticVars, buffVars,
                serveVars>>
storeOthers == <<chunkVars, connVars, routeVars, bodyVars, parseVars, wsVars, frameVars,
                dispVars, regVars, staticVars, buffVars,
                serveVars>>
parseOthers == <<chunkVars, connVars, routeVars, bodyVars, storeVars, wsVars, frameVars,
                dispVars, regVars, staticVars, buffVars,
                serveVars>>
wsOthers    == <<chunkVars, connVars, routeVars, bodyVars, storeVars, parseVars, frameVars,
                dispVars, regVars, staticVars, buffVars,
                serveVars>>
frameOthers == <<chunkVars, connVars, routeVars, bodyVars, storeVars, parseVars, wsVars,
                dispVars, regVars, staticVars, buffVars,
                serveVars>>
dispOthers  == <<chunkVars, connVars, routeVars, bodyVars, storeVars, parseVars, wsVars,
                frameVars, regVars, staticVars, buffVars,
                serveVars>>
regOthers   == <<chunkVars, connVars, routeVars, bodyVars, storeVars, parseVars, wsVars,
                frameVars, dispVars, staticVars, buffVars,
                serveVars>>
staticOthers == <<chunkVars, connVars, routeVars, bodyVars, storeVars, parseVars, wsVars,
                frameVars, dispVars, regVars, buffVars,
                serveVars>>
buffOthers  == <<chunkVars, connVars, routeVars, bodyVars, storeVars, parseVars, wsVars,
                frameVars, dispVars, regVars, staticVars,
                serveVars>>
serveOthers == <<chunkVars, connVars, routeVars, bodyVars, storeVars, parseVars, wsVars,
                frameVars, dispVars, regVars, staticVars, buffVars>>
vars      == <<chunkVars, connVars, routeVars, restVars>>

-----------------------------------------------------------------------------
(* Go's strings / bytes helpers on sequences of characters.                *)

CR == "\r"
LF == "\n"
CRLF == <<CR, LF>>

HasPrefix(s, p) == Len(p) <= Len(s) /\ SubSeq(s, 1, Len(p)) = p

HasSuffix(s, p) == Len(p) <= Len(s) /\ SubSeq(s, Len(s) - Len(p) + 1, Len(s)) = p

TrimPrefix(s, p) == IF HasPrefix(s, p) THEN SubSeq(s, Len(p) + 1, Len(s)) ELSE s

TrimSuffix(s, p) == IF HasSuffix(s, p) THEN SubSeq(s, 1, Len(s) - Len(p)) ELSE s

\* bytes.Index / strings.Index: first position (1-based) of sep in s, 0 if absent
Index(s, sep) ==
    LET hits == {i \in 1..(Len(s) - Len(sep) + 1) : SubSeq(s, i, i + Len(sep) - 1) = sep}
    IN  IF hits = {} THEN 0 ELSE CHOOSE i \in hits : \A j \in hits : i <= j

Contains(s, sep) == Index(s, sep) # 0

\* strings.Trim(s, cutset) / TrimSpace / textproto.TrimBytes: strip both ends
TrimSet(s, cut) ==
    LET keep == {i \in 1..Len(s) : s[i] \notin cut}
    IN  IF keep = {} THEN <<>>
        ELSE SubSeq(s, CHOOSE i \in keep : \A j \in keep : i <= j,
                       CHOOSE i \in keep : \A j \in keep : i >= j)

Space == {" ", "\t", CR, LF}

TrimSpace(s) == TrimSet(s, Space)

\* strings.Split(s, sep) / bytes.Split, sep non-empty: the fields between the
\* occurrences of sep, always at least one field.  (The separators in use,
\* one character or CRLF, cannot overlap themselves, so every occurrence is
\* one of the leftmost non-overlapping matches the library cuts at.)
Split(s, sep) ==
    LET at == {i \in 1..(Len(s) - Len(sep) + 1) : SubSeq(s, i, i + Len(sep) - 1) = sep}
        n == Cardinality(at)
        Cut(k) == IF k = 0 THEN 1 - Len(sep)
                  ELSE IF k = n + 1 THEN Len(s) + 1
                  ELSE CHOOSE p \in at : Cardinality({q \in at : q <= p}) = k
    IN  [k \in 1..(n + 1) |-> SubSeq(s, Cut(k - 1) + Len(sep), Cut(k) - 1)]

\* (mutant) the header line is cut at its last ':'
SplitLast2(s, sep) ==
    LET at == {i \in 1..Len(s) : s[i] = sep[1]}
    IN  IF at = {} THEN <<s>>
        ELSE LET i == CHOOSE i \in at : \A j \in at : j <= i
             IN  <<SubSeq(s, 1, i - 1), SubSeq(s, i + 1, Len(s))>>

\* bytes.SplitN(s, sep, 2)
SplitN2(s, sep) ==
    LET i == Index(s, sep)
    IN  IF i = 0 THEN <<s>>
        ELSE <<SubSeq(s, 1, i - 1), SubSeq(s, i + Len(sep), Len(s))>>

\* strings.ToLower on ASCII letters
LowerOf(c) ==
    CASE c = "A" -> "a" [] c = "B" -> "b" [] c = "C" -> "c" [] c = "D" -> "d"
      [] c = "E" -> "e" [] c = "F" -> "f" [] c = "G" -> "g" [] c = "H" -> "h"
      [] c = "I" -> "i" [] c = "J" -> "j" [] c = "K" -> "k" [] c = "L" -> "l"
      [] c = "M" -> "m" [] c = "N" -> "n" [] c = "O" -> "o" [] c = "P" -> "p"
      [] c = "Q" -> "q" [] c = "R" -> "r" [] c = "S" -> "s" [] c = "T" -> "t"
      [] c = "U" -> "u" [] c = "V" -> "v" [] c = "W" -> "w" [] c = "X" -> "x"
      [] c = "Y" -> "y" [] c = "Z" -> "z"
      [] OTHER -> c

ToLower(s) == [i \in 1..Len(s) |-> LowerOf(s[i])]

RECURSIVE Concat(_)
Concat(ss) == IF ss = <<>> THEN <<>> ELSE Head(ss) \o Concat(Tail(ss))

-----------------------------------------------------------------------------
(* strconv                                                                 *)

DecDigits == <<"0", "1", "2", "3", "4", "5", "6", "7", "8", "9">>

\* strconv.Itoa for n >= 0
RECURSIVE Itoa(_)
Itoa(n) == IF n < 10 THEN <<DecDigits[n + 1]>>
           ELSE Itoa(n \div 10) \o <<DecDigits[(n % 10) + 1]>>

HexVal(c) ==
    CASE c = "0" -> 0 [] c = "1" -> 1 [] c = "2" -> 2 [] c = "3" -> 3
      [] c = "4" -> 4 [] c = "5" -> 5 [] c = "6" -> 6 [] c = "7" -> 7
      [] c = "8" -> 8 [] c = "9" -> 9
      [] c \in {"a", "A"} -> 10 [] c \in {"b", "B"} -> 11 [] c \in {"c", "C"} -> 12
      [] c \in {"d", "D"} -> 13 [] c \in {"e", "E"} -> 14 [] c \in {"f", "F"} -> 15
      [] OTHER -> -1

RECURSIVE HexDigitsVal(_)
HexDigitsVal(s) == IF s = <<>> THEN 0
                   ELSE 16 * HexDigitsVal(SubSeq(s, 1, Len(s) - 1)) + HexVal(s[Len(s)])

\* strconv.ParseInt(s, 16, 64): optional sign, then one or more hex digits
ParseInt16(s) ==
    LET signed == s # <<>> /\ s[1] \in {"+", "-"}
        digits == IF signed THEN Tail(s) ELSE s
    IN  IF digits = <<>> \/ \E i \in 1..Len(digits) : HexVal(digits[i]) < 0
        THEN [ok |-> FALSE, val |-> 0]
        ELSE [ok |-> TRUE,
              val |-> IF signed /\ s[1] = "-" THEN 0 - HexDigitsVal(digits)
                      ELSE HexDigitsVal(digits)]

-----------------------------------------------------------------------------
(* chunkedReader                                                           *)

\* readLine: consume up to and including the first CRLF that ends at
\* position >= 2; the line is what precedes it.  The source running dry is
\* the underlying reader's error (io.EOF).
ReadLine(src) ==
    LET i == Index(src, CRLF)
    IN  IF i = 0 THEN [err |-> "EOF", line |-> <<>>, rest |-> <<>>]
        ELSE [err |-> "", line |-> SubSeq(src, 1, i - 1),
              rest |-> SubSeq(src, i + 2, Len(src))]

\* the trailer loop of a zero-size chunk: read lines until an empty one or an error
RECURSIVE DrainTrailers(_)
DrainTrailers(src) ==
    LET l == ReadLine(src)
    IN  IF l.err # "" \/ l.line = <<>> THEN l.rest ELSE DrainTrailers(l.rest)

\* n = copy(p, data) with len(p) = plen
Copy(plen, data) == SubSeq(data, 1, IF plen < Len(data) THEN plen ELSE Len(data))

\* One call of chunkedReader.Read(p), len(p) = plen, on source src.
\* Result: the octets put into p, the error, the source left, cr.done.
ChunkedRead(src, done, plen) ==
    IF done THEN [data |-> <<>>, err |-> "EOF", src |-> src, done |-> TRUE]
    ELSE
    LET l    == ReadLine(src)
        tok  == TrimSpace(Split(l.line, <<";">>)[1])
        size == ParseInt16(tok)
    IN  IF l.err # ""
        THEN [data |-> <<>>, err |-> "chunk size read error", src |-> l.rest, done |-> FALSE]
        ELSE IF ~size.ok
        THEN [data |-> <<>>, err |-> "invalid chunk size", src |-> l.rest, done |-> FALSE]
        ELSE IF size.val = 0
        THEN [data |-> <<>>, err |-> "EOF", src |-> DrainTrailers(l.rest), done |-> TRUE]
        ELSE IF size.val < 0
        THEN [data |-> <<>>, err |-> "panic", src |-> l.rest, done |-> FALSE]
        ELSE IF Len(l.rest) < size.val
        THEN [data |-> <<>>, err |-> "chunk data read error", src |-> <<>>, done |-> FALSE]
        ELSE
        LET data == SubSeq(l.rest, 1, size.val)
            t    == ReadLine(SubSeq(l.rest, size.val + 1, Len(l.rest)))
        IN  IF t.err # ""
            THEN [data |-> <<>>, err |-> "chunk terminator read error",
                  src |-> t.rest, done |-> FALSE]
            ELSE [data |-> Copy(plen, data), err |-> "", src |-> t.rest, done |-> FALSE]

-----------------------------------------------------------------------------
(* The peer of the chunked decoder: RFC 7230 chunked encoding of a message *)
(* under a chosen partition into chunks.                                   *)

MaxMsgLen == 3
MaxBuf == 3

Octets == {"x", "y"}

RECURSIVE SeqsUpTo(_, _)
SeqsUpTo(S, n) ==
    IF n = 0 THEN {<<>>}
    ELSE LET shorter == SeqsUpTo(S, n - 1)
         IN  shorter \cup {<<c>> \o s : c \in S, s \in {t \in shorter : Len(t) = n - 1}}

\* every way to cut n octets into chunks of positive size
RECURSIVE Partitions(_)
Partitions(n) ==
    IF n = 0 THEN {<<>>}
    ELSE UNION {{<<k>> \o rest : rest \in Partitions(n - k)} : k \in 1..n}

HexDigits == <<"0", "1", "2", "3", "4", "5", "6", "7", "8", "9", "a", "b", "c", "d", "e", "f">>

RECURSIVE HexOf(_)
HexOf(n) == IF n < 16 THEN <<HexDigits[n + 1]>>
            ELSE HexOf(n \div 16) \o <<HexDigits[(n % 16) + 1]>>

RECURSIVE EncodeChunks(_, _)
EncodeChunks(msg, parts) ==
    IF parts = <<>> THEN <<"0">> \o CRLF \o CRLF
    ELSE HexOf(Head(parts)) \o CRLF \o SubSeq(msg, 1, Head(parts)) \o CRLF
         \o EncodeChunks(SubSeq(msg, Head(parts) + 1, Len(msg)), Tail(parts))

IdleChunk ==
    /\ cmsg = <<>> /\ cparts = <<>> /\ cbuf = 0 /\ csrc = <<>>
    /\ cout = <<>> /\ cdone = FALSE /\ cerr = ""

IdleConn ==
    /\ pc = "idle" /\ peer = <<>> /\ peerEnd = "eof" /\ buffer = <<>> /\ perr = ""
    /\ req = <<>> /\ routes = <<>> /\ handler = 0 /\ ran = FALSE /\ ops = <<>>
    /\ w = <<>> /\ stream = <<>> /\ closed = FALSE

IdleRoute == rlist = <<>> /\ rpath = <<>> /\ rres = <<>>

IdleBody ==
    /\ bpc = "idle" /\ bhdr = <<>> /\ btail = <<>> /\ bwire = <<>> /\ bconn = <<>>
    /\ bkind = ""
    /\ bpos = <<>> /\ blimit = 0 /\ bdone = FALSE /\ bout = <<>> /\ berr = ""

IdleStore == hpc = "idle" /\ hg = <<>> /\ hh = <<>> /\ hlog = <<>>

IdleParse == ppc = "idle" /\ pblock = <<>> /\ pres = <<>>

IdleWS ==
    /\ wpc = "idle" /\ wreq = <<>> /\ wmode = "" /\ worigin = "" /\ ww = <<>>
    /\ wstream = <<>> /\ wclosed = FALSE /\ wup = "" /\ wfin = ""

IdleFrame ==
    /\ fpc = "idle" /\ fmsg = <<>> /\ fkey = <<>> /\ fnext = <<>> /\ fsrc = <<>>
    /\ fres = <<>> /\ ferr = ""

IdleDisp ==
    /\ dpc = "idle" /\ dop = 0 /\ dmsg = <<>> /\ dkey = <<>> /\ dwrite = ""
    /\ dsrc = <<>> /\ dres = <<>> /\ derr = "" /\ dpong = <<>>

IdleReg ==
    /\ gpc = "idle" /\ gmws = <<>> /\ ggmw = <<>> /\ gtable = <<>> /\ gdocs = <<>>
    /\ gcalls = <<>> /\ gtrace = <<>>

IdleStatic == spc = "idle" /\ sroot = <<>> /\ sreqpath = <<>> /\ scode = 0 /\ sopen = <<>>

IdleBuff ==
    /\ upc = "idle" /\ usrc = <<>> /\ ueof = "" /\ ulen = 0 /\ umax = 0 /\ uread = 0
    /\ ubuf = <<>> /\ ures = <<>> /\ uerr = ""

IdleServe ==
    /\ kphase = "idle" /\ ktable = <<>> /\ kmws = <<>> /\ kpc = <<>> /\ kreq = <<>>
    /\ kw = <<>> /\ kacc = {}

IdleLate == IdleDisp /\ IdleReg /\ IdleStatic /\ IdleBuff /\ IdleServe

IdleRest == IdleBody /\ IdleStore /\ IdleParse /\ IdleWS /\ IdleFrame /\ IdleLate

InitChunk ==
    /\ cmsg \in SeqsUpTo(Octets, MaxMsgLen)
    /\ cparts \in Partitions(Len(cmsg))
    /\ cbuf \in 1..MaxBuf
    /\ csrc = EncodeChunks(cmsg, cparts)
    /\ cout = <<>>
    /\ cdone = FALSE
    /\ cerr = ""
    /\ IdleConn
    /\ IdleRoute
    /\ IdleRest

\* the caller's loop: one Read into a buffer of cbuf octets, until an error
CallerRead ==
    /\ cerr = ""
    /\ LET r == ChunkedRead(csrc, cdone, cbuf)
       IN  /\ cout' = cout \o r.data
           /\ cerr' = r.err
           /\ csrc' = r.src
           /\ cdone' = r.done
    /\ UNCHANGED <<cmsg, cparts, cbuf, connVars, routeVars, restVars>>

NextChunk == CallerRead

SpecChunk == InitChunk /\ [][NextChunk]_vars

\* C1: looping on chunkedReader.Read until end-of-stream yields exactly the
\* octets of msg, for every partition into chunks and every size of the
\* caller's buffer: when the loop has ended, it ended with io.EOF and the
\* collected octets are msg.
C1_ChunkedLossless == cerr # "" => (cerr = "EOF" /\ cout = cmsg)

-----------------------------------------------------------------------------
(* Router: handlerList, Route, parseRoute                                  *)

\* a Go map as a function; m[k] of an absent key is the zero value (nil handler)
EmptyMap == <<>>

\* handlerList.getHandler
getHandler(h, path) == IF path \in DOMAIN h THEN h[path] ELSE 0

\* handlerList.hasRoute: err == nil
hasRoute(h, path) == getHandler(h, path) # 0

\* m[k] = v
MapSet(m, k, v) == [x \in DOMAIN m \cup {k} |-> IF x = k THEN v ELSE m[x]]

\* Router.Route(path, handler): a pattern already registered is left alone
Route(h, path, hd) == IF getHandler(h, path) # 0 THEN h ELSE MapSet(h, path, hd)

\* strings.Split(strings.Trim(p, "/"), "/")
Segments(p) == Split(TrimSet(p, {"/"}), <<"/">>)

\* The segment loop of parseRoute for pattern segments parts against request
\* segments partsReq, from index i: a parameter segment is added to
\* req.Params at once; the loop breaks at the first literal mismatch.
RECURSIVE WalkSegments(_, _, _, _, _)
WalkSegments(parts, partsReq, i, params, currentPath) ==
    IF i > Len(parts)
    THEN [matched |-> TRUE, params |-> params, currentPath |-> currentPath]
    ELSE LET part == parts[i]
             partReq == partsReq[i]
         IN  IF HasPrefix(part, <<":">>)
             THEN WalkSegments(parts, partsReq, i + 1,
                               MapSet(params, TrimPrefix(part, <<":">>), partReq),
                               currentPath \o <<"/">> \o part)
             ELSE IF part = partReq
             THEN WalkSegments(parts, partsReq, i + 1, params,
                               IF part # <<>> THEN currentPath \o <<"/">> \o part
                               ELSE currentPath)
             ELSE [matched |-> FALSE, params |-> params, currentPath |-> currentPath]

\* One iteration of `for k := range routes` in parseRoute.
\*   "return": the wildcard branch returned routes.getHandler(k)
\*   "break":  the segments matched, originalPath = currentPath
\*   "continue": next pattern (req.Params keeps what the walk added)
LoopBody(h, k, path, params) ==
    IF HasSuffix(k, <<"/", "*">>)
       /\ HasPrefix(path, TrimSuffix(k, <<"/", "*">>) \o <<"/">>)
    THEN [kind |-> "return", handler |-> getHandler(h, k), params |-> params]
    ELSE LET partsReq == Segments(path)
             parts == Segments(k)
         IN  IF Len(parts) # Len(partsReq)
             THEN [kind |-> "continue", handler |-> 0, params |-> params]
             ELSE LET wk == WalkSegments(parts, partsReq, 1, params, <<>>)
                  IN  IF wk.matched
                      THEN [kind |-> "break", handler |-> getHandler(h, wk.currentPath),
                            params |-> wk.params]
                      ELSE [kind |-> "continue", handler |-> 0, params |-> wk.params]

\* The range loop over the patterns not yet visited.  Go leaves the iteration
\* order of a map unspecified and randomises it, so every order is possible:
\* the result is the set of outcomes over all orders.
RECURSIVE RangeRoutes(_, _, _, _)
RangeRoutes(h, left, path, params) ==
    IF left = {}
    THEN {[handler |-> getHandler(h, <<>>), params |-> params]}
    ELSE UNION {
           LET b == LoopBody(h, k, path, params)
           IN  IF b.kind = "continue"
               THEN RangeRoutes(h, left \ {k}, path, b.params)
               ELSE {[handler |-> b.handler, params |-> b.params]}
           : k \in left}

\* Router.parseRoute(req): the possible (handler, req.Params) on return
parseRoute(h, path) ==
    IF hasRoute(h, path)
    THEN {[handler |-> getHandler(h, path), params |-> EmptyMap]}
    ELSE RangeRoutes(h, DOMAIN h, path, EmptyMap)

-----------------------------------------------------------------------------
(* Registrations followed by routing runs                                  *)

MaxRoutes == 2
MaxRuns == 2

Patterns ==
    { <<"/", "a">>,
      <<"/", "a", "/", "*">>,
      <<"/", "a", "/", ":", "x">>,
      <<"/", ":", "x", "/", "b">>,
      <<"/", "a", "/", "b">>,
      <<"/", "a", "/", "b", "/">>,
      <<"/">> }

Paths ==
    { <<"/", "a">>,
      <<"/", "a", "/", "b">>,
      <<"/", "a", "/", "c">>,
      <<"/", "a", "b">>,
      <<"/", "c", "/", "b">>,
      <<"/", "a", "/", "b", "/", "c">>,
      <<"/", "/">> }

InitRoute ==
    /\ rlist = EmptyMap
    /\ rpath \in Paths
    /\ rres = <<>>
    /\ IdleChunk
    /\ IdleConn
    /\ IdleRest

\* r.Route(p, handler) before serving starts; handlers are numbered in
\* registration order
Register(p) ==
    /\ rres = <<>>
    /\ Cardinality(DOMAIN rlist) < MaxRoutes
    /\ rlist' = Route(rlist, p, Cardinality(DOMAIN rlist) + 1)
    /\ UNCHANGED <<rpath, rres, chunkVars, connVars, restVars>>

\* one run of r.parseRoute on a fresh request with Path = rpath
RunParseRoute ==
    /\ Len(rres) < MaxRuns
    /\ \E r \in parseRoute(rlist, rpath) : rres' = Append(rres, r)
    /\ UNCHANGED <<rlist, rpath, chunkVars, connVars, restVars>>

NextRoute == (\E p \in Patterns : Register(p)) \/ RunParseRoute

SpecRoute == InitRoute /\ [][NextRoute]_vars

\* the wildcard-suffix patterns of h whose prefix + "/" begins the path
WildcardsFor(h, path) ==
    {k \in DOMAIN h : /\ HasSuffix(k, <<"/", "*">>)
                      /\ HasPrefix(path, SubSeq(k, 1, Len(k) - 1))}

\* C9: precedence exact > wildcard-suffix > parameterized: an exact pattern
\* equal to the path is selected; otherwise, if a wildcard-suffix pattern
\* matches the path, a wildcard handler is selected, also when a
\* parameterized pattern with the same segment count matches.
C9_Precedence ==
    \A i \in DOMAIN rres :
        IF rpath \in DOMAIN rlist
        THEN rres[i].handler = rlist[rpath]
        ELSE WildcardsFor(rlist, rpath) # {} =>
                 rres[i].handler \in {rlist[k] : k \in WildcardsFor(rlist, rpath)}

\* C10: two runs of parseRoute with the same registration sequence and the
\* same request path return the same handler and the same Params.
C10_Deterministic == \A i, j \in DOMAIN rres : rres[i] = rres[j]

WildA == <<"/", "a", "/", "*">>

\* C11: with "/a/*" the only registered pattern, parseRoute returns its
\* handler for every path beginning with "/a/" and for the path "/a", and
\* returns no handler for "/ab".
C11_WildcardAlone ==
    (DOMAIN rlist = {WildA}) =>
        \A i \in DOMAIN rres :
            /\ (HasPrefix(rpath, <<"/", "a", "/">>) \/ rpath = <<"/", "a">>)
                  => rres[i].handler = rlist[WildA]
            /\ rpath = <<"/", "a", "b">> => rres[i].handler = 0

\* the pattern registered with handler hd (handlers are distinct per pattern)
PatternOf(h, hd) == CHOOSE k \in DOMAIN h : h[k] = hd

\* the name-to-segment captures of the parameter slots of pattern k on the
\* path; empty for a pattern without parameter slots or ending in "/*"
Captures(k, path) ==
    LET ps == Segments(k)
        rs == Segments(path)
        slots == {i \in DOMAIN ps : ps[i] # <<>> /\ ps[i][1] = ":"}
    IN  IF HasSuffix(k, <<"/", "*">>) \/ Len(ps) # Len(rs) THEN EmptyMap
        ELSE [n \in {Tail(ps[i]) : i \in slots} |->
                 rs[CHOOSE i \in slots : Tail(ps[i]) = n]]

\* C12: after parseRoute returns, req.Params holds exactly the captures of
\* the parameter slots of the selected pattern, and nothing captured while
\* walking a pattern that was rejected; it is empty when no pattern, an exact
\* pattern or a wildcard pattern is selected.
C12_ParamsOnlyOnMatch ==
    \A i \in DOMAIN rres :
        rres[i].params =
            IF rres[i].handler = 0 \/ rpath \in DOMAIN rlist THEN EmptyMap
            ELSE Captures(PatternOf(rlist, rres[i].handler), rpath)

\* C30: whenever the segment-by-segment walk in parseRoute fully matches a
\* registered pattern k, the handler returned is the one registered under k,
\* never nil; also for a pattern registered with a trailing slash and for the
\* root pattern "/" requested with extra slashes.
C30_WalkReturnsHandler ==
    (rres # <<>> /\ ~hasRoute(rlist, rpath)) =>
        \A k \in DOMAIN rlist :
            LET b == LoopBody(rlist, k, rpath, EmptyMap)
            IN  b.kind = "break" =>
                    /\ b.handler = rlist[k]
                    /\ DOMAIN rlist = {k} => \A i \in DOMAIN rres : rres[i].handler = rlist[k]

-----------------------------------------------------------------------------
(* Request.parser, Headers                                                 *)

\* Headers.Add: h[strings.ToLower(key)] = value
HeadersAdd(h, key, value) == MapSet(h, ToLower(key), value)

\* (mutant) Get looks the key up as given
HeadersGetExact(h, key) == IF key \in DOMAIN h THEN h[key] ELSE <<>>

\* Headers.Get: h[strings.ToLower(key)], "" when absent
HeadersGet(h, key) == IF ToLower(key) \in DOMAIN h THEN h[ToLower(key)] ELSE <<>>

\* the header loop of Request.parser over lines[i..]
RECURSIVE ParseHeaderLines(_, _, _)
ParseHeaderLines(lines, i, h) ==
    IF i > Len(lines) THEN [err |-> "", Headers |-> h]
    ELSE IF lines[i] = <<>> THEN ParseHeaderLines(lines, i + 1, h)
    ELSE LET parts == SplitN2(lines[i], <<":">>)
         IN  IF Len(parts) # 2 THEN [err |-> "invalid header format", Headers |-> h]
             ELSE ParseHeaderLines(lines, i + 1,
                      HeadersAdd(h, ToLower(TrimSpace(parts[1])), TrimSpace(parts[2])))

\* Request.parser(headersByte)
parser(headersByte) ==
    LET lines == Split(headersByte, CRLF)
        titleParts == Split(lines[1], <<" ">>)
        noReq == [err |-> "", Method |-> <<>>, Path |-> <<>>, Version |-> <<>>,
                  Headers |-> EmptyMap, Params |-> EmptyMap]
    IN  IF Len(titleParts) # 3
        THEN [noReq EXCEPT !.err = "invalid request line format"]
        ELSE LET hs == ParseHeaderLines(lines, 2, EmptyMap)
             IN  [err |-> hs.err, Method |-> titleParts[1],
                  Path |-> TrimSpace(titleParts[2]), Version |-> titleParts[3],
                  Headers |-> hs.Headers, Params |-> EmptyMap]

-----------------------------------------------------------------------------
(* Writer                                                                  *)

ContentLength == <<"c", "o", "n", "t", "e", "n", "t", "-", "l", "e", "n", "g", "t", "h">>
AppContentLength == <<"C", "o", "n", "t", "e", "n", "t", "-", "L", "e", "n", "g", "t", "h">>
AppTransferEncoding == <<"T", "r", "a", "n", "s", "f", "e", "r", "-", "E", "n", "c", "o", "d", "i", "n", "g">>

\* net/http.StatusText for the codes in use ("" for an unknown code)
StatusText(code) ==
    CASE code = 200 -> <<"OK">>
      [] code = 201 -> <<"Created">>
      [] code = 400 -> <<"Bad Request">>
      [] code = 404 -> <<"Not Found">>
      [] code = 413 -> <<"Request Entity Too Large">>
      [] code = 500 -> <<"Internal Server Error">>
      [] OTHER -> <<>>

\* what goes onto the connection, item by item
StatusItem(code) == [t |-> "status", a |-> Itoa(code), b |-> StatusText(code)]
HeaderItem(k, v) == [t |-> "header", a |-> k, b |-> v]
BlankItem == [t |-> "blank", a |-> <<>>, b |-> <<>>]
BodyItems(p) == [i \in 1..Len(p) |-> [t |-> "body", a |-> <<p[i]>>, b |-> <<>>]]

\* (mutant) the status line ignores w.code
StatusLineOK(code) == StatusItem(200)

\* statusLine of write / WriteHeaders: "HTTP/1.1 200 OK" unless w.code is set
StatusLine(code) == IF code # 0 THEN StatusItem(code) ELSE StatusItem(200)

\* every order in which `for k, v := range w.Headers` can visit the keys
RECURSIVE Orders(_)
Orders(S) == IF S = {} THEN {<<>>}
             ELSE UNION {{<<k>> \o o : o \in Orders(S \ {k})} : k \in S}

HeaderLines(h, order) == [i \in 1..Len(order) |-> HeaderItem(order[i], h[order[i]])]

\* the outcomes of one c.Write(items): all written and no error, or an error
\* after some proper prefix (possibly nothing) went out
ConnWrite(items) ==
    {[n |-> Len(items), err |-> FALSE]}
    \cup {[n |-> k, err |-> TRUE] : k \in 0..(IF Len(items) = 0 THEN 0 ELSE Len(items) - 1)}

newWriter == [code |-> 0, body |-> <<>>, Headers |-> EmptyMap, headersSent |-> FALSE]

\* Writer.WriteHeader(statusCode)
WriteHeader(wr, statusCode) == IF wr.code # 0 THEN wr ELSE [wr EXCEPT !.code = statusCode]

\* Writer.Write(p) when headers are not sent: append to the body buffer
BufferBody(wr, p) == [wr EXCEPT !.body = wr.body \o p]

\* (mutant) Write keeps buffering after the headers are out
WriteNeverDirect(wr) == FALSE

\* Writer.Write(p): does this call go straight to the connection?
WriteIsDirect(wr) == wr.headersSent

\* (mutant) write never adds Content-Length
NoContentLength(wr) == wr

\* the Content-Length step of Writer.write
AutoContentLength(wr) ==
    IF Len(wr.body) > 0 /\ HeadersGet(wr.Headers, ContentLength) = <<>>
    THEN [wr EXCEPT !.Headers = HeadersAdd(wr.Headers, ContentLength, Itoa(Len(wr.body)))]
    ELSE wr

\* what Writer.write hands to c.Write, for one order of the header map
FullResponse(wr, order) ==
    <<StatusLine(wr.code)>> \o HeaderLines(wr.Headers, order) \o <<BlankItem>>
        \o BodyItems(wr.body)

\* what Writer.WriteHeaders hands to c.Write
HeadersOnly(wr, order) ==
    <<StatusLine(wr.code)>> \o HeaderLines(wr.Headers, order) \o <<BlankItem>>

\* Writer.Write(p) on writer wr with st already on the connection: the
\* possible (writer, connection, octets written, error) afterwards
Write(wr, st, p) ==
    IF WriteIsDirect(wr)
    THEN {[w |-> wr, stream |-> st \o SubSeq(BodyItems(p), 1, o.n), n |-> o.n, err |-> o.err]
            : o \in ConnWrite(BodyItems(p))}
    ELSE {[w |-> BufferBody(wr, p), stream |-> st, n |-> Len(p), err |-> FALSE]}

\* Writer.write()
write(wr, st) ==
    IF wr.headersSent THEN {[w |-> wr, stream |-> st, n |-> 0, err |-> FALSE]}
    ELSE LET w1 == AutoContentLength(wr)
         IN  UNION {
               LET items == FullResponse(w1, order)
               IN  {[w |-> [w1 EXCEPT !.headersSent = ~o.err],
                     stream |-> st \o SubSeq(items, 1, o.n), n |-> o.n, err |-> o.err]
                      : o \in ConnWrite(items)}
               : order \in Orders(DOMAIN w1.Headers)}

\* Writer.WriteHeaders()
WriteHeaders(wr, st) ==
    IF wr.headersSent THEN {[w |-> wr, stream |-> st, n |-> 0, err |-> FALSE]}
    ELSE UNION {
           LET items == HeadersOnly(wr, order)
           IN  {[w |-> [wr EXCEPT !.headersSent = ~o.err],
                 stream |-> st \o SubSeq(items, 1, o.n), n |-> o.n, err |-> o.err]
                  : o \in ConnWrite(items)}
           : order \in Orders(DOMAIN wr.Headers)}

-----------------------------------------------------------------------------
(* handleConn on one accepted connection                                   *)

\* Model bounds standing for len(temp) of parserConn's slab (4096 in the
\* source) and for defaultMaxHeaderBytes (1 << 20 in the source), scaled down
\* so that a request can reach the limit
ReadSize == 5
defaultMaxHeaderBytes == 20

MaxOps == 3

Requests ==
    { <<"G", " ", "/", "a", " ", "H", CR, LF, CR, LF>>,
      <<"G", " ", "/", "b", "/", "c", " ", "H", CR, LF, "K", ":", " ", "v", CR, LF, CR, LF>>,
      <<"G", " ", "/", "c", " ", "H", CR, LF, CR, LF>>,
      <<"G", " ", "/", "a", CR, LF, CR, LF>>,
      <<"G", " ", " ", "/", "a", " ", "H", CR, LF, CR, LF>>,
      <<"G", " ", "/", "a", " ", "H", CR, LF, "k", CR, LF, CR, LF>>,
      <<"G", " ", "/", "a", " ", "H", CR, LF, "k", ":", "v">>,
      <<"G", " ", "/", "a", " ", "H", CR, LF, "k", "k", "k", "k", "k", "k", "k", "k", "k", "k", "k", "k", "k", "k">>,
      <<"G", " ", "/", "k", "/", "k", "k", "k", "k", "k", "k", "k", "k", "k", "k", "k", "k", "k", " ", "H", CR, LF, CR, LF>> }

\* route tables registered before the accept loop starts
RouteTables ==
    { Route(Route(EmptyMap, <<"/", "a">>, 1), <<"/", "b", "/", "*">>, 2),
      Route(Route(EmptyMap, <<"/", ":", "x">>, 1), <<"/", "b", "/", ":", "y">>, 2) }

Payloads == {<<>>, <<"x">>, <<"y", "z">>}
StatusCodes == {201, 500}
AppHeaders == {<<AppContentLength, <<"7">>>>, <<AppTransferEncoding, <<"c", "h", "u", "n", "k", "e", "d">>>>}

InitConn ==
    /\ pc = "read"
    /\ peer \in Requests
    /\ peerEnd \in {"eof", "reset"}
    /\ buffer = <<>>
    /\ perr = ""
    /\ req = <<>>
    /\ routes \in RouteTables
    /\ handler = 0
    /\ ran = FALSE
    /\ ops = <<>>
    /\ w = newWriter
    /\ stream = <<>>
    /\ closed = FALSE
    /\ IdleChunk
    /\ IdleRoute
    /\ IdleRest

\* One iteration of parserConn's read loop in which c.Read delivered `got`:
\* the buffer afterwards, and how the loop goes on.  When the terminator is
\* in the buffer the headers are split off and req.parser runs; a parserConn
\* error makes handleConn log it and return.
ReadStep(buf0, got) ==
    LET buf == buf0 \o got
        idx == Index(buf, CRLF \o CRLF)
    IN  IF idx # 0
        THEN LET rq == parser(SubSeq(buf, 1, idx - 1))
             IN  IF rq.err # ""
                 THEN [buffer |-> buf, pc |-> "closed", perr |-> rq.err, req |-> <<>>]
                 ELSE [buffer |-> buf, pc |-> "route", perr |-> "", req |-> rq]
        ELSE IF Len(buf) >= defaultMaxHeaderBytes
        THEN [buffer |-> buf, pc |-> "closed", perr |-> "headers exceed maximum size",
              req |-> <<>>]
        ELSE [buffer |-> buf, pc |-> "read", perr |-> "", req |-> <<>>]

\* c.Read has octets to deliver
CanRead(n) == pc = "read" /\ n <= Len(peer)

\* c.Read delivers the next n octets of the peer; the deferred c.Close()
\* runs when handleConn returns on a parserConn error
ReadSome(n) ==
    /\ CanRead(n)
    /\ LET r == ReadStep(buffer, SubSeq(peer, 1, n))
       IN  /\ buffer' = r.buffer
           /\ pc' = r.pc
           /\ perr' = r.perr
           /\ req' = r.req
           /\ closed' = (r.pc = "closed")
    /\ peer' = SubSeq(peer, n + 1, Len(peer))
    /\ UNCHANGED <<peerEnd, routes, handler, ran, ops, w, stream, chunkVars, routeVars, restVars>>

\* c.Read returns io.EOF (the peer closed its side): `continue`
ReadEOF ==
    /\ pc = "read"
    /\ peer = <<>>
    /\ peerEnd = "eof"
    /\ UNCHANGED vars

\* c.Read returns another error: parserConn returns it, handleConn logs it
\* and returns, the deferred c.Close() runs
CanFailRead == pc = "read" /\ peerEnd = "reset"

ReadError ==
    /\ CanFailRead
    /\ perr' = "read error"
    /\ pc' = "closed"
    /\ closed' = TRUE
    /\ UNCHANGED <<peer, peerEnd, buffer, req, routes, handler, ran, ops, w, stream,
                   chunkVars, routeVars, restVars>>

\* w := newWriter(c); handler := r.parseRoute(req); the handler is entered,
\* or w.code = http.StatusNotFound
Dispatch ==
    /\ pc = "route"
    /\ \E r \in parseRoute(routes, req.Path) :
         /\ handler' = r.handler
         /\ req' = [req EXCEPT !.Params = r.params]
         /\ IF r.handler # 0
            THEN ran' = TRUE /\ w' = newWriter /\ pc' = "handler"
            ELSE ran' = ran /\ w' = [newWriter EXCEPT !.code = 404] /\ pc' = "finish"
    /\ UNCHANGED <<peer, peerEnd, buffer, perr, routes, ops, stream, closed,
                   chunkVars, routeVars, restVars>>

InHandler == pc = "handler" /\ Len(ops) < MaxOps

Called(op, a, b, n, err) == Append(ops, [op |-> op, a |-> a, b |-> b, n |-> n, err |-> err])

HandlerWriteHeader(c) ==
    /\ InHandler
    /\ w' = WriteHeader(w, c)
    /\ ops' = Called("WriteHeader", Itoa(c), <<>>, 0, FALSE)
    /\ UNCHANGED <<pc, peer, peerEnd, buffer, perr, req, routes, handler, ran, stream,
                   closed, chunkVars, routeVars, restVars>>

HandlerAddHeader(kv) ==
    /\ InHandler
    /\ w' = [w EXCEPT !.Headers = HeadersAdd(w.Headers, kv[1], kv[2])]
    /\ ops' = Called("Headers.Add", kv[1], kv[2], 0, FALSE)
    /\ UNCHANGED <<pc, peer, peerEnd, buffer, perr, req, routes, handler, ran, stream,
                   closed, chunkVars, routeVars, restVars>>

HandlerWrite(p) ==
    /\ InHandler
    /\ \E r \in Write(w, stream, p) :
         /\ w' = r.w
         /\ stream' = r.stream
         /\ ops' = Called("Write", p, <<>>, r.n, r.err)
    /\ UNCHANGED <<pc, peer, peerEnd, buffer, perr, req, routes, handler, ran,
                   closed, chunkVars, routeVars, restVars>>

HandlerWriteHeaders ==
    /\ InHandler
    /\ \E r \in WriteHeaders(w, stream) :
         /\ w' = r.w
         /\ stream' = r.stream
         /\ ops' = Called("WriteHeaders", <<>>, <<>>, r.n, r.err)
    /\ UNCHANGED <<pc, peer, peerEnd, buffer, perr, req, routes, handler, ran,
                   closed, chunkVars, routeVars, restVars>>

HandlerReturn ==
    /\ pc = "handler"
    /\ pc' = "finish"
    /\ UNCHANGED <<peer, peerEnd, buffer, perr, req, routes, handler, ran, ops, w,
                   stream, closed, chunkVars, routeVars, restVars>>

\* the handler function panics: handleConn has no recover(), so its deferred
\* c.Close() runs while the panic unwinds and the panic leaves handleConn
\* (an unrecovered panic of a goroutine ends the program)
HandlerPanic ==
    /\ pc = "handler"
    /\ pc' = "panic"
    /\ closed' = TRUE
    /\ UNCHANGED <<peer, peerEnd, buffer, perr, req, routes, handler, ran, ops, w,
                   stream, chunkVars, routeVars, restVars>>

\* the tail of handleConn: w.write() unless headers were sent, then the
\* deferred c.Close()
Finish ==
    /\ pc = "finish"
    /\ IF ~w.headersSent
       THEN \E r \in write(w, stream) :
              /\ w' = r.w
              /\ stream' = r.stream
              /\ ops' = Called("write", <<>>, <<>>, r.n, r.err)
       ELSE UNCHANGED <<w, stream, ops>>
    /\ pc' = "closed"
    /\ closed' = TRUE
    /\ UNCHANGED <<peer, peerEnd, buffer, perr, req, routes, handler, ran,
                   chunkVars, routeVars, restVars>>

NextConn ==
    \/ \E n \in 1..ReadSize : ReadSome(n)
    \/ ReadEOF
    \/ ReadError
    \/ Dispatch
    \/ \E c \in StatusCodes : HandlerWriteHeader(c)
    \/ \E kv \in AppHeaders : HandlerAddHeader(kv)
    \/ \E p \in Payloads : HandlerWrite(p)
    \/ HandlerWriteHeaders
    \/ HandlerReturn
    \/ HandlerPanic
    \/ Finish

SpecConn == InitConn /\ [][NextConn]_vars

-----------------------------------------------------------------------------
(* Properties of handleConn and the Writer                                 *)

Last(q) == q[Len(q)]

\* the handler's own calls (handleConn's final write() is logged as "write")
HandlerCalls == SelectSeq(ops, LAMBDA o : o.op # "write")

\* the handler called WriteHeader / added header k (lowercase) / WriteHeaders
AppSetStatus == \E i \in DOMAIN ops : ops[i].op = "WriteHeader"
AppSetHeader(k) == \E i \in DOMAIN ops : ops[i].op = "Headers.Add" /\ ToLower(ops[i].a) = k
AppCalled(op) == \E i \in DOMAIN ops : ops[i].op = op

\* all octets the handler passed to Write, in call order
Written == Concat([i \in DOMAIN ops |-> IF ops[i].op = "Write" THEN ops[i].a ELSE <<>>])

\* the body octets on the connection, in order
StreamBody == Concat([i \in DOMAIN stream |->
                         IF stream[i].t = "body" THEN stream[i].a ELSE <<>>])

\* the values of header k on the connection
StreamHeader(k) == {stream[i].b : i \in {j \in DOMAIN stream :
                                          stream[j].t = "header" /\ stream[j].a = k}}

\* the connection is closed and the response on it was emitted, whole, by write()
EmittedByWrite ==
    /\ pc = "closed"
    /\ ops # <<>>
    /\ Last(ops).op = "write"
    /\ ~Last(ops).err

RECURSIVE IsSubseq(_, _)
IsSubseq(a, b) ==
    IF a = <<>> THEN TRUE
    ELSE IF b = <<>> THEN FALSE
    ELSE IF Head(a) = Head(b) THEN IsSubseq(Tail(a), Tail(b))
    ELSE IsSubseq(a, Tail(b))

\* a status line, header lines and the blank line lie before position i
HeaderBlockBefore(i) ==
    \E s, e \in 1..(i - 1) :
        /\ s < e
        /\ stream[s].t = "status"
        /\ stream[e].t = "blank"
        /\ \A m \in (s + 1)..(e - 1) : stream[m].t = "header"

C2_HeadersFirst ==
    /\ \A i \in DOMAIN stream : stream[i].t = "body" => HeaderBlockBefore(i)
    /\ IsSubseq(StreamBody, Written)

C2_DirectAfterSent ==
    (w.headersSent /\ Len(ops') = Len(ops) + 1 /\ Last(ops').op = "Write") =>
        /\ w'.body = w.body
        /\ stream' = stream \o SubSeq(BodyItems(Last(ops').a), 1, Last(ops').n)
        /\ (~Last(ops').err => Last(ops').n = Len(Last(ops').a))

\* C2: on every connection the status line, the headers and the blank line
\* are on the stream before the first body byte, the body bytes on the stream
\* are in the order of the Write calls, and once headersSent is true every
\* Write goes to the stream (in full unless the connection fails) and never
\* to the body buffer.
C2_WriteOrder == [](C2_HeadersFirst) /\ [][C2_DirectAfterSent]_vars

\* reached for C2: headers were flushed by WriteHeaders and a later Write put
\* its octets on the stream after them
C2_Witness ==
    /\ pc = "closed"
    /\ \E i \in DOMAIN ops : \E j \in DOMAIN ops :
         /\ i < j
         /\ ops[i].op = "WriteHeaders" /\ ~ops[i].err
         /\ ops[j].op = "Write" /\ ops[j].n = 2
    /\ StreamBody = <<"y", "z">>

\* the handler wrote a body and set neither a status nor Content-Length, and
\* the response was emitted by write()
C3_Case ==
    /\ EmittedByWrite
    /\ ran
    /\ AppCalled("Write")
    /\ ~AppSetStatus
    /\ ~AppSetHeader(ContentLength)

C4_AutoContentLength ==
    /\ EmittedByWrite =>
         /\ (~AppSetHeader(ContentLength) /\ StreamHeader(ContentLength) # {})
              <=> (/\ w.body # <<>>
                   /\ ~AppSetHeader(ContentLength)
                   /\ ~AppSetHeader(ToLower(AppTransferEncoding)))
         /\ AppSetHeader(ContentLength) => StreamHeader(ContentLength) = {<<"7">>}
    /\ (pc = "closed" /\ ran /\ AppCalled("WriteHeaders") /\ ~AppSetHeader(ContentLength))
         => (w.headersSent /\ Last(ops).op # "write" => StreamHeader(ContentLength) = {})

\* C5: when parserConn fails because the header bytes reached MaxHeaderBytes
\* without a terminator, a 413 response is on the stream when the connection
\* is closed.
C5_TooLarge413 ==
    (pc = "closed" /\ perr = "headers exceed maximum size")
        => (stream # <<>> /\ stream[1] = StatusItem(413))

\* the header block handed to Request.parser, once the terminator has arrived
HeaderBlock == SubSeq(buffer, 1, Index(buffer, CRLF \o CRLF) - 1)

\* the request line has not exactly two single spaces separating three
\* tokens, or some non-empty header line has no ':'
Malformed(block) ==
    LET lines == Split(block, CRLF)
    IN  \/ Cardinality({i \in DOMAIN lines[1] : lines[1][i] = " "}) # 2
        \/ \E i \in 2..Len(lines) :
              lines[i] # <<>> /\ \A j \in DOMAIN lines[i] : lines[i][j] # ":"

\* C6: a malformed request line or header line makes the parser fail, no
\* handler runs, and a 400 response is on the stream when the connection is
\* closed.
C6_BadRequest400 ==
    (pc = "closed" /\ Contains(buffer, CRLF \o CRLF) /\ Malformed(HeaderBlock))
        => /\ perr \in {"invalid request line format", "invalid header format"}
           /\ ~ran
           /\ stream # <<>> /\ stream[1] = StatusItem(400)

\* pattern k matches the path by the matching policy: equal, or a wildcard
\* suffix whose prefix is the path or begins it, or equal segment by segment
\* with parameter segments matching anything
PatternMatches(k, path) ==
    \/ k = path
    \/ /\ Len(k) >= 2 /\ k[Len(k)] = "*" /\ k[Len(k) - 1] = "/"
       /\ \/ path = SubSeq(k, 1, Len(k) - 2)
          \/ \E n \in 1..Len(path) : SubSeq(path, 1, n) = SubSeq(k, 1, Len(k) - 1)
    \/ LET ps == Segments(k)
           rs == Segments(path)
       IN  /\ Len(ps) = Len(rs)
           /\ \A i \in DOMAIN ps : \/ ps[i] = rs[i]
                                   \/ (ps[i] # <<>> /\ ps[i][1] = ":")

IsPrefixOf(a, b) == Len(a) <= Len(b) /\ SubSeq(b, 1, Len(a)) = a

\* C7: when no registered pattern matches the path, no handler runs and the
\* one response written is status 404 with no body, then the connection is
\* closed; when a matched handler returns without setting a status or
\* writing, the response is 200 with no body.  (A failing connection cuts the
\* response short.)
C7_NotFoundAndDefault ==
    (pc = "closed" /\ perr = "") =>
        /\ (\A k \in DOMAIN routes : ~PatternMatches(k, req.Path)) =>
              /\ ~ran
              /\ closed
              /\ IsPrefixOf(stream, <<StatusItem(404), BlankItem>>)
              /\ EmittedByWrite => stream = <<StatusItem(404), BlankItem>>
        /\ (ran /\ HandlerCalls = <<>>) =>
              /\ IsPrefixOf(stream, <<StatusItem(200), BlankItem>>)
              /\ EmittedByWrite => stream = <<StatusItem(200), BlankItem>>

C7_Witness ==
    /\ pc = "closed"
    /\ perr = ""
    /\ \A k \in DOMAIN routes : ~PatternMatches(k, req.Path)
    /\ ~ran
    /\ stream = <<StatusItem(404), BlankItem>>

\* handleConn can take a step that changes its state: c.Read delivers octets
\* or fails, or handleConn is past parserConn (routing, in the handler, or
\* at its final write and Close, none of which waits on the peer).  The one
\* step left out is ReadEOF, which changes nothing.
CanProgress ==
    \/ \E n \in 1..ReadSize : CanRead(n)
    \/ CanFailRead
    \/ pc \in {"route", "handler", "finish"}

\* C8: handleConn terminates with the stream closed on every path: as long
\* as the connection is not closed, handleConn is not stuck, it can still
\* take a step that makes progress.
C8_Terminates == (pc = "closed" /\ closed) \/ CanProgress

\* C25: handleConn recovers from a panic raised inside a handler function:
\* the panic does not escape handleConn, and the connection is closed after
\* handling.
C25_PanicRecovered ==
    /\ pc # "panic"
    /\ (ran /\ pc \notin {"handler", "finish"}) => closed

\* the status lines on the stream
StatusLines == {i \in DOMAIN stream : stream[i].t = "status"}

C28_AtMostOneStatusLine == Cardinality(StatusLines) <= 1

C28_NeverBack == w.headersSent => w'.headersSent

\* C28: headersSent changes from false to true at most once and never back,
\* and the status line is put on the stream at most once per connection, for
\* any sequence of WriteHeaders() and write() calls, a call that follows a
\* failed stream write included.
C28_HeadersSentOnce == [](C28_AtMostOneStatusLine) /\ [][C28_NeverBack]_vars

\* every stream write of the connection succeeded
WritesSucceeded == \A i \in DOMAIN ops : ~ops[i].err

\* the octets for which Write returned success, in call order
Accepted == Concat([i \in DOMAIN ops |->
                      IF ops[i].op = "Write" /\ ~ops[i].err THEN ops[i].a ELSE <<>>])

\* C29: no accepted body byte is lost: when handleConn has closed the
\* connection after the handler returned, every octet for which Write
\* returned success is on the stream, stream writes succeeding.
C29_NoByteLost ==
    (pc = "closed" /\ ran /\ WritesSucceeded) => StreamBody = Accepted

\* C31: no request whose header block (the bytes before the first
\* \r\n\r\n) is MaxHeaderBytes or longer is ever parsed and handed to the
\* route matcher, for every way the bytes are split across reads: such a
\* request makes parserConn fail with the headers-too-large error.
C31_HeaderLimit ==
    (Contains(buffer, CRLF \o CRLF) /\ Len(HeaderBlock) >= defaultMaxHeaderBytes)
        => (req = <<>> /\ pc = "closed" /\ perr = "headers exceed maximum size")

-----------------------------------------------------------------------------
(* The body reader selector of parserConn and the handler's read loop      *)

TransferEncoding ==
    <<"t", "r", "a", "n", "s", "f", "e", "r", "-", "e", "n", "c", "o", "d", "i", "n", "g">>
Chunked == <<"c", "h", "u", "n", "k", "e", "d">>

DecVal(c) == CHOOSE d \in 0..9 : DecDigits[d + 1] = c

RECURSIVE DecDigitsVal(_)
DecDigitsVal(s) == IF s = <<>> THEN 0
                   ELSE 10 * DecDigitsVal(SubSeq(s, 1, Len(s) - 1)) + DecVal(s[Len(s)])

\* strconv.Atoi(s): optional sign, then one or more decimal digits; the
\* value is 0 when there is an error
Atoi(s) ==
    LET signed == s # <<>> /\ s[1] \in {"+", "-"}
        digits == IF signed THEN Tail(s) ELSE s
    IN  IF digits = <<>> \/ \E i \in 1..Len(digits) :
                               \A d \in 1..10 : DecDigits[d] # digits[i]
        THEN [ok |-> FALSE, val |-> 0]
        ELSE [ok |-> TRUE,
              val |-> IF signed /\ s[1] = "-" THEN 0 - DecDigitsVal(digits)
                      ELSE DecDigitsVal(digits)]

\* isChunked of parserConn
IsChunked(h) ==
    LET te == HeadersGet(h, TransferEncoding)
    IN  te # <<>> /\ te = Chunked

\* the reader parserConn installs as req.Body
SelectReader(h, initialBody) ==
    IF IsChunked(h) THEN [kind |-> "chunked", limit |-> 0]
    ELSE LET contentLength == Atoi(HeadersGet(h, ContentLength)).val
         IN  IF contentLength > 0
             THEN [kind |-> "limited", limit |-> contentLength - Len(initialBody)]
             ELSE [kind |-> "tail", limit |-> 0]

Min(a, b) == IF a < b THEN a ELSE b

MaxBody == 3

\* what the peer put on the wire after the header terminator
BodyText == <<"a", "b", "c", "d", "e", "f">>

WireBodies ==
    {SubSeq(BodyText, 1, n) : n \in 0..MaxBody}
    \cup {EncodeChunks(<<"a", "b">>, <<2>>)}

ContentLengths == {Itoa(n) : n \in 0..MaxBody} \cup {<<"x">>}

TransferEncodings ==
    { Chunked,
      <<"C", "h", "u", "n", "k", "e", "d">>,
      <<"C", "H", "U", "N", "K", "E", "D">>,
      <<"g", "z", "i", "p">> }

\* header stores as Request.parser leaves them: lowercase names
BodyHeaders ==
    LET withCL == {EmptyMap} \cup {HeadersAdd(EmptyMap, ContentLength, v) : v \in ContentLengths}
    IN  withCL \cup {HeadersAdd(h, TransferEncoding, v) : h \in withCL, v \in TransferEncodings}

InitBody ==
    /\ bpc = "select"
    /\ bhdr \in BodyHeaders
    /\ \E wire \in WireBodies : \E k \in 0..Len(wire) :
         /\ btail = SubSeq(wire, 1, k)
         /\ bwire = SubSeq(wire, k + 1, Len(wire))
    /\ bconn = bwire
    /\ bkind = ""
    /\ bpos = <<>>
    /\ blimit = 0
    /\ bdone = FALSE
    /\ bout = <<>>
    /\ berr = ""
    /\ IdleChunk
    /\ IdleConn
    /\ IdleRoute
    /\ IdleStore
    /\ IdleParse
    /\ IdleWS
    /\ IdleFrame
    /\ IdleLate

\* parserConn from `var isChunked bool` to `req.Body = bodyReader`
SelectBody ==
    /\ bpc = "select"
    /\ LET r == SelectReader(bhdr, btail)
       IN  bkind' = r.kind /\ blimit' = r.limit
    /\ bpos' = btail
    /\ bpc' = "read"
    /\ UNCHANGED <<bhdr, btail, bwire, bconn, bdone, bout, berr, bodyOthers>>

\* bytes.Reader.Read(p), len(p) = plen, with octets left
ReadTail(plen) ==
    /\ bpos # <<>>
    /\ bout' = bout \o SubSeq(bpos, 1, Min(plen, Len(bpos)))
    /\ bpos' = SubSeq(bpos, Min(plen, Len(bpos)) + 1, Len(bpos))
    /\ UNCHANGED <<bconn, blimit, bdone, berr>>

\* io.LimitReader(c, remaining).Read(p) once initialBody is exhausted: EOF
\* when N <= 0 or the peer has closed, else some of the octets c has, at
\* most min(len(p), N)
ReadLimited(plen) ==
    /\ bpos = <<>>
    /\ IF blimit <= 0 \/ bconn = <<>>
       THEN berr' = "EOF" /\ UNCHANGED <<bconn, blimit, bout>>
       ELSE \E n \in 1..Min(Min(plen, blimit), Len(bconn)) :
              /\ bout' = bout \o SubSeq(bconn, 1, n)
              /\ bconn' = SubSeq(bconn, n + 1, Len(bconn))
              /\ blimit' = blimit - n
              /\ berr' = berr
    /\ UNCHANGED <<bpos, bdone>>

\* one req.Body.Read(p) of the handler's loop, len(p) = plen
BodyRead(plen) ==
    /\ bpc = "read"
    /\ berr = ""
    /\ CASE bkind = "tail" ->
              \/ ReadTail(plen)
              \/ /\ bpos = <<>>
                 /\ berr' = "EOF"
                 /\ UNCHANGED <<bpos, bconn, blimit, bdone, bout>>
         [] bkind = "limited" -> ReadTail(plen) \/ ReadLimited(plen)
         [] OTHER ->
              LET r == ChunkedRead(bpos \o bconn, bdone, plen)
              IN  /\ bout' = bout \o r.data
                  /\ berr' = r.err
                  /\ bdone' = r.done
                  /\ bpos' = <<>>
                  /\ bconn' = r.src
                  /\ blimit' = blimit
    /\ UNCHANGED <<bpc, bhdr, btail, bwire, bkind, bodyOthers>>

NextBody == SelectBody \/ \E plen \in 1..MaxBuf : BodyRead(plen)

SpecBody == InitBody /\ [][NextBody]_vars

\* C13: for a non-chunked request whose Content-Length parses to a
\* non-negative N (within MaxBodyBytes) and whose peer sends at least N
\* octets, reading req.Body to end-of-stream yields exactly the first N octets
\* of initialBody followed by the rest of the stream, for every split.
C13_LengthLimited ==
    LET cl == Atoi(HeadersGet(bhdr, ContentLength))
    IN  (/\ bpc = "read" /\ berr # ""
         /\ ToLower(HeadersGet(bhdr, TransferEncoding)) # Chunked
         /\ cl.ok /\ cl.val >= 0
         /\ Len(btail \o bwire) >= cl.val)
        => (berr = "EOF" /\ bout = SubSeq(btail \o bwire, 1, cl.val))

\* C14: the chunked decoder is installed exactly when the Transfer-Encoding
\* value equals "chunked" under case folding, also when Content-Length is
\* present.
C14_ChunkedSelected ==
    bpc = "read" => (bkind = "chunked" <=> ToLower(HeadersGet(bhdr, TransferEncoding)) = Chunked)

-----------------------------------------------------------------------------
(* The header stores: Headers of package gouter and Headers of httpio      *)

\* httpio Headers.Get: NotExist for a missing or empty value
httpioHeadersGet(h, key) ==
    LET value == IF ToLower(key) \in DOMAIN h THEN h[ToLower(key)] ELSE <<>>
    IN  IF value = <<>> THEN [val |-> <<>>, err |-> "NotExist"]
        ELSE [val |-> value, err |-> ""]

\* httpio Headers.Add
httpioHeadersAdd(h, key, value) ==
    IF httpioHeadersGet(h, ToLower(key)).err = ""
    THEN [h |-> h, err |-> "AlreadyExists"]
    ELSE [h |-> MapSet(h, ToLower(key), value), err |-> ""]

\* httpio Headers.Set
httpioHeadersSet(h, key, value) == MapSet(h, ToLower(key), value)

\* httpio Headers.Del
httpioHeadersDel(h, key) ==
    IF httpioHeadersGet(h, ToLower(key)).err # ""
    THEN [h |-> h, err |-> "NotExist"]
    ELSE [h |-> [x \in DOMAIN h \ {ToLower(key)} |-> h[x]], err |-> ""]

MaxStoreOps == 2

UpperOf(c) ==
    CASE c = "a" -> "A" [] c = "b" -> "B" [] c = "c" -> "C" [] c = "d" -> "D"
      [] c = "e" -> "E" [] c = "f" -> "F" [] c = "g" -> "G" [] c = "h" -> "H"
      [] c = "i" -> "I" [] c = "j" -> "J" [] c = "k" -> "K" [] c = "l" -> "L"
      [] c = "m" -> "M" [] c = "n" -> "N" [] c = "o" -> "O" [] c = "p" -> "P"
      [] c = "q" -> "Q" [] c = "r" -> "R" [] c = "s" -> "S" [] c = "t" -> "T"
      [] c = "u" -> "U" [] c = "v" -> "V" [] c = "w" -> "W" [] c = "x" -> "X"
      [] c = "y" -> "Y" [] c = "z" -> "Z"
      [] OTHER -> c

ToUpper(s) == [i \in 1..Len(s) |-> UpperOf(s[i])]

\* every case permutation of name k
CasePerms(k) ==
    LET lo == ToLower(k)
        up == ToUpper(k)
    IN  {[i \in DOMAIN k |-> IF b[i] THEN up[i] ELSE lo[i]] : b \in [DOMAIN k -> BOOLEAN]}

StoreNames == {<<"k">>, <<"a", "b">>}
StoreKeys == UNION {CasePerms(k) : k \in StoreNames}
StoreValues == {<<>>, <<"v">>, <<"w">>}

InitStore ==
    /\ hpc = "run"
    /\ hg = EmptyMap
    /\ hh = EmptyMap
    /\ hlog = <<>>
    /\ IdleChunk
    /\ IdleConn
    /\ IdleRoute
    /\ IdleBody
    /\ IdleParse
    /\ IdleWS
    /\ IdleFrame
    /\ IdleLate

CanCall == hpc = "run" /\ Len(hlog) < MaxStoreOps

Logged(op, key, value, herr) ==
    Append(hlog, [op |-> op, key |-> key, value |-> value, herr |-> herr])

\* h.Add(key, value) on both stores; the gouter one returns nothing
StoreAdd(key, value) ==
    /\ CanCall
    /\ hg' = HeadersAdd(hg, key, value)
    /\ LET r == httpioHeadersAdd(hh, key, value)
       IN  hh' = r.h /\ hlog' = Logged("Add", key, value, r.err)
    /\ UNCHANGED <<hpc, storeOthers>>

\* h.Get(key) on both stores; value: what the httpio store returned
StoreGet(key) ==
    /\ CanCall
    /\ LET r == httpioHeadersGet(hh, key)
       IN  hlog' = Logged("Get", key, r.val, r.err)
    /\ UNCHANGED <<hpc, hg, hh, storeOthers>>

\* h.Set(key, value), which only the httpio store has
StoreSet(key, value) ==
    /\ CanCall
    /\ hh' = httpioHeadersSet(hh, key, value)
    /\ hlog' = Logged("Set", key, value, "")
    /\ UNCHANGED <<hpc, hg, storeOthers>>

\* h.Del(key), which only the httpio store has
StoreDel(key) ==
    /\ CanCall
    /\ LET r == httpioHeadersDel(hh, key)
       IN  hh' = r.h /\ hlog' = Logged("Del", key, <<>>, r.err)
    /\ UNCHANGED <<hpc, hg, storeOthers>>

NextStore ==
    \/ \E k \in StoreKeys, v \in StoreValues : StoreAdd(k, v)
    \/ \E k \in StoreKeys : StoreGet(k)
    \/ \E k \in StoreKeys, v \in StoreValues : StoreSet(k, v)
    \/ \E k \in StoreKeys : StoreDel(k)

SpecStore == InitStore /\ [][NextStore]_vars

\* C15: the header store is case-insensitive and round-trips values: every
\* stored key is lowercase; get gives the same for every case permutation
\* of a name; right after an add(k, v) that stored the value, and right after
\* a set(k, w), get(K) returns that value for every case permutation K of k.
C15_CaseInsensitive ==
    /\ \A key \in DOMAIN hg \cup DOMAIN hh : key = ToLower(key)
    /\ \A k \in StoreKeys : \A K \in CasePerms(k) :
          /\ HeadersGet(hg, K) = HeadersGet(hg, k)
          /\ httpioHeadersGet(hh, K) = httpioHeadersGet(hh, k)
    /\ hlog # <<>> =>
          LET o == hlog[Len(hlog)]
          IN  /\ o.op = "Add" =>
                    \A K \in CasePerms(o.key) : HeadersGet(hg, K) = o.value
              /\ (o.op = "Add" /\ o.herr = "") =>
                    \A K \in CasePerms(o.key) : httpioHeadersGet(hh, K).val = o.value
              /\ o.op = "Set" =>
                    \A K \in CasePerms(o.key) : httpioHeadersGet(hh, K).val = o.value

\* reached for C15: add("ab", v) stored v, then set("AB", w) replaced it, and
\* get("aB") returns w
C15_Witness ==
    /\ Len(hlog) = 2
    /\ hlog[1] = [op |-> "Add", key |-> <<"a", "b">>, value |-> <<"v">>, herr |-> ""]
    /\ hlog[2] = [op |-> "Set", key |-> <<"A", "B">>, value |-> <<"w">>, herr |-> ""]
    /\ httpioHeadersGet(hh, <<"a", "B">>) = [val |-> <<"w">>, err |-> ""]
    /\ HeadersGet(hg, <<"A", "b">>) = <<"v">>

\* C16: after add(k, v); add(k, w) the second call reports AlreadyExists and
\* get(k) is still v (first wins), in both stores.
C16_FirstWins ==
    \A i \in 2..Len(hlog) :
        (/\ i = Len(hlog)
         /\ hlog[i - 1].op = "Add" /\ hlog[i - 1].herr = ""
         /\ hlog[i].op = "Add" /\ ToLower(hlog[i].key) = ToLower(hlog[i - 1].key))
        => /\ hlog[i].herr = "AlreadyExists"
           /\ httpioHeadersGet(hh, hlog[i].key).val = hlog[i - 1].value
           /\ HeadersGet(hg, hlog[i].key) = hlog[i - 1].value

-----------------------------------------------------------------------------
(* Request.parser as a function of the header block                        *)

MaxLines == 3

RequestLines ==
    { <<"G", " ", "/", "a", " ", "H">>,
      <<"G", " ", " ", "/", "a", " ", "H">>,
      <<"G", " ", "/", "a">> }

HeaderLinePool ==
    { <<"K", ":", " ", "v">>,
      <<"k", ":", "v">>,
      <<" ", "A", "b", " ", ":", " ", "w", " ">>,
      <<>>,
      <<"k">>,
      <<"K", ":", "v", ":", "w">>,
      <<"a", "b", ":">> }

RECURSIVE JoinLines(_)
JoinLines(ls) == IF Len(ls) = 1 THEN ls[1] ELSE ls[1] \o CRLF \o JoinLines(Tail(ls))

HeaderBlocks ==
    {JoinLines(<<rl>> \o ls) : rl \in RequestLines, ls \in SeqsUpTo(HeaderLinePool, MaxLines)}

InitParse ==
    /\ ppc = "input"
    /\ pblock \in HeaderBlocks
    /\ pres = <<>>
    /\ IdleChunk
    /\ IdleConn
    /\ IdleRoute
    /\ IdleBody
    /\ IdleStore
    /\ IdleWS
    /\ IdleFrame
    /\ IdleLate

\* err := req.parser(headers) on a new request
Parse ==
    /\ ppc = "input"
    /\ pres' = parser(pblock)
    /\ ppc' = "parsed"
    /\ UNCHANGED <<pblock, parseOthers>>

NextParse == Parse

SpecParse == InitParse /\ [][NextParse]_vars

\* position of the first ':' of a line, 0 if there is none
FirstColon(line) ==
    IF \E i \in DOMAIN line : line[i] = ":"
    THEN CHOOSE i \in DOMAIN line : line[i] = ":" /\ \A j \in 1..(i - 1) : line[j] # ":"
    ELSE 0

NameOf(line) == ToLower(TrimSet(SubSeq(line, 1, FirstColon(line) - 1), Space))
ValueOf(line) == TrimSet(SubSeq(line, FirstColon(line) + 1, Len(line)), Space)

\* the non-empty lines after the request line
HeaderLinesOf(block) ==
    LET lines == Split(block, CRLF)
    IN  {i \in 2..Len(lines) : lines[i] # <<>>}

\* a request line of three non-empty tokens separated by single spaces, then
\* lines that are empty or hold a ':', no header name twice
WellFormed(block) ==
    LET lines == Split(block, CRLF)
        toks == Split(lines[1], <<" ">>)
    IN  /\ Len(toks) = 3
        /\ \A t \in DOMAIN toks : toks[t] # <<>> /\ \A j \in DOMAIN toks[t] : toks[t][j] \notin Space
        /\ \A i \in HeaderLinesOf(block) : FirstColon(lines[i]) # 0
        /\ \A i, j \in HeaderLinesOf(block) : NameOf(lines[i]) = NameOf(lines[j]) => i = j

-----------------------------------------------------------------------------
(* WebSocket handshake: Request.Upgrade, WebSocketRoute, and handleConn's  *)
(* tail on the same connection                                             *)

HUpgrade == <<"U", "p", "g", "r", "a", "d", "e">>
HConnection == <<"C", "o", "n", "n", "e", "c", "t", "i", "o", "n">>
HSecKey ==
    <<"S", "e", "c", "-", "W", "e", "b", "S", "o", "c", "k", "e", "t", "-", "K", "e", "y">>
Websocket == <<"w", "e", "b", "s", "o", "c", "k", "e", "t">>
UpgradeToken == <<"u", "p", "g", "r", "a", "d", "e">>

\* err.Error() of the errors Upgrade returns
ErrText(e) ==
    CASE e = "not a websocket handshake" ->
           <<"n", "o", "t", " ", "a", " ", "w", "e", "b", "s", "o", "c", "k", "e", "t", " ",
           "h", "a", "n", "d", "s", "h", "a", "k", "e">>
      [] e = "origin not allowed" ->
           <<"o", "r", "i", "g", "i", "n", " ", "n", "o", "t", " ", "a", "l", "l", "o", "w",
           "e", "d">>
      [] e = "missing Sec-WebSocket-Key" ->
           <<"m", "i", "s", "s", "i", "n", "g", " ", "S", "e", "c", "-", "W", "e", "b", "S",
           "o", "c", "k", "e", "t", "-", "K", "e", "y">>
      [] OTHER ->
           <<"w", "r", "i", "t", "e", ":", " ", "b", "r", "o", "k", "e", "n", " ", "p", "i",
           "p", "e">>

\* computeAcceptKey: base64(sha1(clientKey + websocketGUID)), kept symbolic
computeAcceptKey(clientKey) == <<"base64(sha1(">> \o clientKey \o <<"258EAFA5-E914-47DA-95CA-C5AB0DC85B11", "))">>

\* the bytes Upgrade hands to w.c.Write
SwitchingProtocols(clientKey) ==
    << [t |-> "status", a |-> <<"1", "0", "1">>, b |-> <<"Switching Protocols">>],
       HeaderItem(<<"Upgrade">>, <<"websocket">>),
       HeaderItem(<<"Connection">>, <<"Upgrade">>),
       HeaderItem(<<"Sec-WebSocket-Accept">>, computeAcceptKey(clientKey)),
       BlankItem >>

\* the checks of Request.Upgrade, in order: "" when the handshake is accepted
UpgradeCheck(h, origin) ==
    IF ToLower(HeadersGet(h, HUpgrade)) # Websocket
       \/ ToLower(HeadersGet(h, HConnection)) # UpgradeToken
    THEN "not a websocket handshake"
    ELSE IF origin = "deny" THEN "origin not allowed"
    ELSE IF HeadersGet(h, HSecKey) = <<>> THEN "missing Sec-WebSocket-Key"
    ELSE ""

\* Error(w, err, code): w.WriteHeader(code); w.Write([]byte(err.Error()))
Error(wr, st, err, code) ==
    {r.w : r \in Write(WriteHeader(wr, code), st, ErrText(err))}

MaxFrames == 1

UpgradeValues ==
    { Websocket, <<"W", "e", "b", "S", "o", "c", "k", "e", "t">>,
      <<"h", "2", "c">> }

ConnectionValues ==
    { UpgradeToken, <<"U", "p", "g", "r", "a", "d", "e">>,
      <<"k", "e", "e", "p", "-", "a", "l", "i", "v", "e", ",", " ", "U", "p", "g", "r",
      "a", "d", "e">>,
      <<"c", "l", "o", "s", "e">> }

\* handshake requests as Request.parser stores them: lowercase names
Handshakes ==
    LET opt(hs, k, vs) == hs \cup {HeadersAdd(h, k, v) : h \in hs, v \in vs}
    IN  opt(opt(opt({EmptyMap}, HUpgrade, UpgradeValues), HConnection, ConnectionValues),
            HSecKey, {<<"k">>})

InitWS ==
    /\ wpc = "handler"
    /\ wreq \in Handshakes
    /\ wmode \in {"route", "direct"}
    /\ worigin \in {"none", "allow", "deny"}
    /\ ww = newWriter
    /\ wstream = <<>>
    /\ wclosed = FALSE
    /\ wup = ""
    /\ wfin = ""
    /\ IdleChunk
    /\ IdleConn
    /\ IdleRoute
    /\ IdleBody
    /\ IdleStore
    /\ IdleParse
    /\ IdleFrame
    /\ IdleLate

\* the handler calls r.Upgrade(w, cfg) and a check fails; WebSocketRoute
\* answers Error(w, err, 400) and returns, a handler of its own may do the
\* same or just return
UpgradeRejected ==
    /\ wpc = "handler"
    /\ UpgradeCheck(wreq, worigin) # ""
    /\ wup' = UpgradeCheck(wreq, worigin)
    /\ \/ ww' \in Error(ww, wstream, wup', 400)
       \/ wmode = "direct" /\ ww' = ww
    /\ wpc' = "finish"
    /\ UNCHANGED <<wreq, wmode, worigin, wstream, wclosed, wfin, wsOthers>>

\* the checks pass and Upgrade writes the 101 response straight to w.c
UpgradeAccepted ==
    /\ wpc = "handler"
    /\ UpgradeCheck(wreq, worigin) = ""
    /\ LET items == SwitchingProtocols(HeadersGet(wreq, HSecKey))
       IN  \E o \in ConnWrite(items) :
             /\ wstream' = wstream \o SubSeq(items, 1, o.n)
             /\ IF o.err
                THEN /\ wup' = "write error"
                     /\ wpc' = "finish"
                     /\ \/ ww' \in Error(ww, wstream', wup', 400)
                        \/ wmode = "direct" /\ ww' = ww
                ELSE wup' = "ok" /\ wpc' = "session" /\ ww' = ww
    /\ UNCHANGED <<wreq, wmode, worigin, wclosed, wfin, wsOthers>>

\* ws.WriteMessage(message) during the session: one frame onto the stream
SessionWrite ==
    /\ wpc = "session"
    /\ Cardinality({i \in DOMAIN wstream : wstream[i].t = "frame"}) < MaxFrames
    /\ wstream' = Append(wstream, [t |-> "frame", a |-> <<"m">>, b |-> <<>>])
    /\ UNCHANGED <<wpc, wreq, wmode, worigin, ww, wclosed, wup, wfin, wsOthers>>

\* the handler returns: WebSocketRoute's deferred ws.Close() closes the
\* connection; a handler that called Upgrade itself may or may not have closed
HandlerDone ==
    /\ wpc = "session"
    /\ \/ wclosed' = TRUE
       \/ wmode = "direct" /\ wclosed' = FALSE
    /\ wpc' = "finish"
    /\ UNCHANGED <<wreq, wmode, worigin, ww, wstream, wup, wfin, wsOthers>>

\* the tail of handleConn: w.write() unless headers were sent (a Write on a
\* closed connection fails and puts nothing on the wire), then c.Close()
FinishWS ==
    /\ wpc = "finish"
    /\ IF ww.headersSent
       THEN wfin' = "skipped" /\ UNCHANGED <<ww, wstream>>
       ELSE IF wclosed
       THEN wfin' = "error" /\ UNCHANGED <<ww, wstream>>
       ELSE \E r \in write(ww, wstream) :
              /\ ww' = r.w
              /\ wstream' = r.stream
              /\ wfin' = IF r.err THEN "error" ELSE "ok"
    /\ wclosed' = TRUE
    /\ wpc' = "closed"
    /\ UNCHANGED <<wreq, wmode, worigin, wup, wsOthers>>

NextWS == UpgradeRejected \/ UpgradeAccepted \/ SessionWrite \/ HandlerDone \/ FinishWS

SpecWS == InitWS /\ [][NextWS]_vars

\* the preconditions of the handshake as the contract states them
HandshakeOK ==
    /\ ToLower(HeadersGet(wreq, HUpgrade)) = Websocket
    /\ Contains(ToLower(HeadersGet(wreq, HConnection)), UpgradeToken)
    /\ HeadersGet(wreq, HSecKey) # <<>>
    /\ worigin # "deny"

Is101(item) == item.t = "status" /\ item.a = <<"1", "0", "1">>

\* C18: the upgrade succeeds, with 101 written, exactly when the
\* preconditions hold (a failing connection aside); when one fails, no part
\* of a 101 response is written and, through WebSocketRoute, the connection
\* gets a 400 response.
C18_UpgradeExactly ==
    wpc = "closed" =>
        /\ wup = "ok" => (HandshakeOK /\ wstream # <<>> /\ Is101(wstream[1]))
        /\ HandshakeOK => wup \in {"ok", "write error"}
        /\ ~HandshakeOK =>
              /\ \A i \in DOMAIN wstream : ~Is101(wstream[i])
              /\ (wmode = "route" /\ wfin = "ok") => wstream[1] = StatusItem(400)

\* C19: after a successful upgrade handleConn puts no HTTP status line,
\* header, blank line or body octet on the stream: whatever follows the 101
\* response is WebSocket frames.
C19_WriterUnused ==
    (wpc = "closed" /\ wup = "ok") =>
        \A i \in DOMAIN wstream :
            i > Len(SwitchingProtocols(HeadersGet(wreq, HSecKey))) => wstream[i].t = "frame"

-----------------------------------------------------------------------------
(* WebSocket frames: writeFrame and readFrame; octets are numbers 0..255   *)

\* a ^ b on octets
RECURSIVE Xor(_, _)
Xor(a, b) == IF a = 0 /\ b = 0 THEN 0
             ELSE (((a % 2) + (b % 2)) % 2) + 2 * Xor(a \div 2, b \div 2)

\* binary.BigEndian.PutUint16 / PutUint64 of a length below 2^24
PutUint16(n) == <<(n \div 256) % 256, n % 256>>
PutUint64(n) == <<0, 0, 0, 0, 0, (n \div 65536) % 256, (n \div 256) % 256, n % 256>>

\* a length no stream of the model can hold; stands for every value of
\* 2^24 and above
HugeLen == 16777216

Uint16(b) == b[1] * 256 + b[2]
Uint64(b) == IF \E i \in 1..5 : b[i] # 0 THEN HugeLen
             ELSE b[6] * 65536 + b[7] * 256 + b[8]

\* the bytes writeFrame hands to conn.Write
writeFrame(message) ==
    LET payloadLen == Len(message)
    IN  IF payloadLen <= 125 THEN <<129, payloadLen>> \o message
        ELSE IF payloadLen <= 65535 THEN <<129, 126>> \o PutUint16(payloadLen) \o message
        ELSE <<129, 127>> \o PutUint64(payloadLen) \o message

\* io.ReadFull(conn, buf) with len(buf) = n on the octets src
ReadFull(src, n) ==
    IF Len(src) < n THEN [err |-> "unexpected EOF", buf |-> <<>>, rest |-> <<>>]
    ELSE [err |-> "", buf |-> SubSeq(src, 1, n), rest |-> SubSeq(src, n + 1, Len(src))]

\* the bytes sendPong hands to conn.Write
sendPong(payload) == <<138, Len(payload) % 256>> \o payload

\* readFrame(conn): the payload and error returned, the octets left on the
\* stream, and the pong written back for a ping
readFrame(src) ==
    LET failed(e, rest) == [payload |-> <<>>, err |-> e, rest |-> rest, pong |-> <<>>]
        header == ReadFull(src, 2)
    IN  IF header.err # "" THEN failed(header.err, header.rest)
        ELSE
        LET opcode == header.buf[1] % 16
            masked == header.buf[2] >= 128
            len7 == header.buf[2] % 128
            ext16 == IF len7 = 126 THEN ReadFull(header.rest, 2)
                     ELSE [err |-> "", buf |-> <<>>, rest |-> header.rest]
            len16 == IF len7 = 126 /\ ext16.err = "" THEN Uint16(ext16.buf) ELSE len7
        IN  IF ext16.err # "" THEN failed(ext16.err, ext16.rest)
            ELSE
            LET ext64 == IF len16 = 127 THEN ReadFull(ext16.rest, 8)
                         ELSE [err |-> "", buf |-> <<>>, rest |-> ext16.rest]
                payloadLen == IF len16 = 127 /\ ext64.err = "" THEN Uint64(ext64.buf) ELSE len16
            IN  IF ext64.err # "" THEN failed(ext64.err, ext64.rest)
                ELSE
                LET maskKey == IF masked THEN ReadFull(ext64.rest, 4)
                               ELSE [err |-> "", buf |-> <<>>, rest |-> ext64.rest]
                IN  IF maskKey.err # "" THEN failed(maskKey.err, maskKey.rest)
                    ELSE
                    LET body == ReadFull(maskKey.rest, payloadLen)
                        payload == IF masked
                                   THEN [i \in 1..Len(body.buf) |->
                                            Xor(body.buf[i], maskKey.buf[((i - 1) % 4) + 1])]
                                   ELSE body.buf
                    IN  IF body.err # "" THEN failed(body.err, body.rest)
                        ELSE CASE opcode = 1 ->
                                    [payload |-> payload, err |-> "", rest |-> body.rest,
                                     pong |-> <<>>]
                               [] opcode = 8 -> failed("close frame received", body.rest)
                               [] opcode = 9 ->
                                    [payload |-> <<>>, err |-> "", rest |-> body.rest,
                                     pong |-> sendPong(payload)]
                               [] opcode = 10 -> failed("", body.rest)
                               [] OTHER -> failed("unsupported frame type", body.rest)

\* a client's single text frame, masked with key (RFC 6455 5.2)
MaskedFrame(message, key) ==
    LET n == Len(message)
        head == IF n <= 125 THEN <<129, 128 + n>>
                ELSE IF n <= 65535 THEN <<129, 128 + 126>> \o PutUint16(n)
                ELSE <<129, 128 + 127>> \o PutUint64(n)
    IN  head \o key \o [i \in 1..n |-> Xor(message[i], key[((i - 1) % 4) + 1])]

FrameLengths == {0, 1, 2, 125, 126, 127, 128}
LongFrameLengths == {65535, 65536}
FrameSeeds == {0, 7, 200}
MaskKeys == {<<0, 0, 0, 0>>, <<1, 2, 3, 4>>, <<255, 0, 170, 85>>}

\* a message of n octets
Message(n, seed) == [i \in 1..n |-> (seed + i) % 256]

InitFrame ==
    /\ fpc = "send"
    /\ fmsg \in {Message(n, seed) : n \in FrameLengths, seed \in FrameSeeds}
                \cup {Message(n, 0) : n \in LongFrameLengths}
    /\ fkey \in {<<>>} \cup MaskKeys
    /\ fnext \in {<<>>, <<129, 0>>}
    /\ fsrc = <<>>
    /\ fres = <<>>
    /\ ferr = ""
    /\ IdleChunk
    /\ IdleConn
    /\ IdleRoute
    /\ IdleBody
    /\ IdleStore
    /\ IdleParse
    /\ IdleWS
    /\ IdleLate

\* ws.WriteMessage(fmsg) on the sending side: writeFrame puts one unmasked
\* frame on the stream
SendFrame ==
    /\ fpc = "send"
    /\ fkey = <<>>
    /\ fsrc' = writeFrame(fmsg) \o fnext
    /\ fpc' = "recv"
    /\ UNCHANGED <<fmsg, fkey, fnext, fres, ferr, frameOthers>>

\* a client sends the message as one masked frame
SendMasked ==
    /\ fpc = "send"
    /\ fkey # <<>>
    /\ fsrc' = MaskedFrame(fmsg, fkey) \o fnext
    /\ fpc' = "recv"
    /\ UNCHANGED <<fmsg, fkey, fnext, fres, ferr, frameOthers>>

\* ws.ReadMessage() on the receiving side
RecvFrame ==
    /\ fpc = "recv"
    /\ LET r == readFrame(fsrc)
       IN  fres' = r.payload /\ ferr' = r.err /\ fsrc' = r.rest
    /\ fpc' = "done"
    /\ UNCHANGED <<fmsg, fkey, fnext, frameOthers>>

NextFrame == SendFrame \/ SendMasked \/ RecvFrame

SpecFrame == InitFrame /\ [][NextFrame]_vars

\* C20: readFrame applied to the bytes of writeFrame(m) returns exactly m and
\* consumes exactly those bytes, for every length of m; the same when the
\* frame is masked with a 4-octet key.
C20_FrameRoundTrip ==
    fpc = "done" => (ferr = "" /\ fres = fmsg /\ fsrc = fnext)

-----------------------------------------------------------------------------
(* readFrame by opcode: data, close, ping (sendPong) and pong frames       *)

IdleEarly ==
    /\ IdleChunk /\ IdleConn /\ IdleRoute /\ IdleBody /\ IdleStore /\ IdleParse
    /\ IdleWS /\ IdleFrame

\* a peer's single frame with first octet `first` (FIN and opcode), masked
\* with key, or unmasked when key is <<>> (RFC 6455 5.2)
PeerFrame(first, message, key) ==
    IF key = <<>> THEN <<first>> \o Tail(writeFrame(message))
    ELSE <<first>> \o Tail(MaskedFrame(message, key))

Opcodes == {0, 1, 2, 3, 8, 9, 10, 15}
PayloadLengths == {0, 1, 2, 125, 126, 127, 128, 256}

InitDisp ==
    /\ dpc = "send"
    /\ dop \in Opcodes
    /\ dmsg \in {Message(n, seed) : n \in PayloadLengths, seed \in {0, 200}}
    /\ dkey \in {<<>>, <<1, 2, 3, 4>>}
    /\ dwrite \in {"ok", "fail"}
    /\ dsrc = <<>>
    /\ dres = <<>>
    /\ derr = ""
    /\ dpong = <<>>
    /\ IdleEarly
    /\ IdleServe
    /\ IdleReg
    /\ IdleStatic
    /\ IdleBuff

\* the peer sends one final frame of opcode dop
PeerSend ==
    /\ dpc = "send"
    /\ dsrc' = PeerFrame(128 + dop, dmsg, dkey)
    /\ dpc' = "recv"
    /\ UNCHANGED <<dop, dmsg, dkey, dwrite, dres, derr, dpong, dispOthers>>

\* readFrame(conn) on the server: for a ping, sendPong writes to the
\* connection, and the error of that write is what readFrame returns
ReadOne ==
    /\ dpc = "recv"
    /\ LET r == readFrame(dsrc)
       IN  /\ dsrc' = r.rest
           /\ dres' = r.payload
           /\ IF r.pong = <<>> THEN dpong' = <<>> /\ derr' = r.err
              ELSE IF dwrite = "ok" THEN dpong' = r.pong /\ derr' = ""
              ELSE /\ \E n \in 0..(Len(r.pong) - 1) : dpong' = SubSeq(r.pong, 1, n)
                   /\ derr' = "write error"
    /\ dpc' = "done"
    /\ UNCHANGED <<dop, dmsg, dkey, dwrite, dispOthers>>

NextDisp == PeerSend \/ ReadOne

SpecDisp == InitDisp /\ [][NextDisp]_vars

\* C21: for every ping frame read by readFrame, whatever its payload length,
\* the server writes one well-formed pong frame (first octet 0x8A) whose
\* encoded length and payload are those of the ping, and readFrame returns no
\* message and no error (the write to the connection succeeding).
C21_PongEchoes ==
    (dpc = "done" /\ dop = 9 /\ dwrite = "ok") =>
        /\ dpong = <<138>> \o Tail(writeFrame(dmsg))
        /\ dres = <<>>
        /\ derr = ""

\* C22: readFrame dispatches by opcode: text (0x1) and binary (0x2) frames
\* return their unmasked payload; close (0x8) returns the close error; pong
\* (0xA) returns nothing and no error; every other opcode but ping returns
\* the unsupported-frame error.
C22_OpcodeDispatch ==
    dpc = "done" =>
        CASE dop \in {1, 2} -> dres = dmsg /\ derr = ""
          [] dop = 8 -> dres = <<>> /\ derr = "close frame received"
          [] dop = 10 -> dres = <<>> /\ derr = ""
          [] dop = 9 -> TRUE
          [] OTHER -> dres = <<>> /\ derr = "unsupported frame type"

-----------------------------------------------------------------------------
(* Router.Use / Router.Route and Group.Use / Group.Route                   *)

\* A Handler value: the base handler function h (0 = nil) and the
\* middlewares wrapped around it, innermost first.  A middleware m is
\* func(next Handler) Handler returning a function that runs and calls next.
NilHandler == [mw |-> <<>>, h |-> 0]

\* (mutant) the middleware is put under the wrappers already applied
WrapUnder(m, hd) == [hd EXCEPT !.mw = <<m>> \o @]

\* handler = mw(handler)
Wrap(m, hd) == [hd EXCEPT !.mw = Append(@, m)]

\* for _, mw := range mws { handler = mw(handler) }
RECURSIVE ApplyAll(_, _)
ApplyAll(mws, hd) == IF mws = <<>> THEN hd ELSE ApplyAll(Tail(mws), Wrap(Head(mws), hd))

\* h[path] of a handlerList holding Handler values
Stored(t, path) == IF path \in DOMAIN t THEN t[path] ELSE NilHandler

\* the names of the parameter segments of a pattern, as Route documents them
DocParameters(path) ==
    LET parts == Split(path, <<"/">>)
        idx == {i \in DOMAIN parts : HasPrefix(parts[i], <<":">>)}
        RECURSIVE Collect(_)
        Collect(i) == IF i > Len(parts) THEN <<>>
                      ELSE IF i \in idx THEN <<TrimPrefix(parts[i], <<":">>)>> \o Collect(i + 1)
                      ELSE Collect(i + 1)
    IN  Collect(1)

\* Router.Route(path, handler) on the router (table, docs, mws)
RouterRoute(rt, path, hd) ==
    IF Stored(rt.table, path) # NilHandler THEN rt
    ELSE [rt EXCEPT !.table = MapSet(rt.table, path, ApplyAll(rt.mws, hd)),
                    !.docs = Append(rt.docs, [Path |-> path, Method |-> "GET",
                                              Parameters |-> DocParameters(path)])]

\* Group.Route(path, handler) of a group with prefix pathGroup and list gmw
GroupRoute(rt, pathGroup, gmw, path, hd) ==
    RouterRoute(rt, pathGroup \o path, ApplyAll(gmw, hd))

\* invoking a stored handler: the functions entered, in order, every
\* middleware calling next
RECURSIVE Entered(_)
Entered(hd) ==
    IF hd.mw = <<>> THEN <<hd.h>>
    ELSE <<hd.mw[Len(hd.mw)]>> \o Entered([hd EXCEPT !.mw = SubSeq(@, 1, Len(@) - 1)])

MaxCalls == 5

RouterMiddlewares == {"m1", "m2"}
GroupMiddlewares == {"g1", "g2"}
PathGroup == <<"/", "g">>
RoutePaths == {<<"/", "a">>, <<"/", ":", "x">>}
HandlerFuncs == {0, 1}

InitReg ==
    /\ gpc = "run"
    /\ gmws = <<>>
    /\ ggmw = <<>>
    /\ gtable = EmptyMap
    /\ gdocs = <<>>
    /\ gcalls = <<>>
    /\ gtrace = <<>>
    /\ IdleEarly
    /\ IdleServe
    /\ IdleDisp
    /\ IdleStatic
    /\ IdleBuff

\* registrations happen before the server starts serving
CanRegister == gpc = "run" /\ Len(gcalls) < MaxCalls /\ gtrace = <<>>

\* (mutant) the middleware is also wrapped around the handlers already stored
UseStored(m) ==
    /\ CanRegister
    /\ gmws' = Append(gmws, m)
    /\ gtable' = [p \in DOMAIN gtable |-> Wrap(m, gtable[p])]
    /\ gcalls' = Append(gcalls, [op |-> "Use", path |-> <<>>, mw |-> m, h |-> 0])
    /\ UNCHANGED <<gpc, ggmw, gdocs, gtrace, regOthers>>

\* r.Use(m)
Use(m) ==
    /\ CanRegister
    /\ gmws' = Append(gmws, m)
    /\ gcalls' = Append(gcalls, [op |-> "Use", path |-> <<>>, mw |-> m, h |-> 0])
    /\ UNCHANGED <<gpc, ggmw, gtable, gdocs, gtrace, regOthers>>

\* g.Use(m)
GroupUse(m) ==
    /\ CanRegister
    /\ ggmw' = Append(ggmw, m)
    /\ gcalls' = Append(gcalls, [op |-> "Group.Use", path |-> <<>>, mw |-> m, h |-> 0])
    /\ UNCHANGED <<gpc, gmws, gtable, gdocs, gtrace, regOthers>>

\* r.Route(path, h)
RouteCall(path, h) ==
    /\ CanRegister
    /\ LET rt == RouterRoute([table |-> gtable, docs |-> gdocs, mws |-> gmws], path,
                             [mw |-> <<>>, h |-> h])
       IN  gtable' = rt.table /\ gdocs' = rt.docs
    /\ gcalls' = Append(gcalls, [op |-> "Route", path |-> path, mw |-> "", h |-> h])
    /\ UNCHANGED <<gpc, gmws, ggmw, gtrace, regOthers>>

\* g.Route(path, h)
GroupRouteCall(path, h) ==
    /\ CanRegister
    /\ LET rt == GroupRoute([table |-> gtable, docs |-> gdocs, mws |-> gmws], PathGroup,
                            ggmw, path, [mw |-> <<>>, h |-> h])
       IN  gtable' = rt.table /\ gdocs' = rt.docs
    /\ gcalls' = Append(gcalls, [op |-> "Group.Route", path |-> PathGroup \o path,
                                 mw |-> "", h |-> h])
    /\ UNCHANGED <<gpc, gmws, ggmw, gtrace, regOthers>>

\* a request is routed to the handler stored under pattern p, which runs
Serve(p) ==
    /\ gpc = "run"
    /\ gtrace = <<>>
    /\ p \in DOMAIN gtable
    /\ gtable[p].h # 0
    /\ gtrace' = <<[path |-> p, entered |-> Entered(gtable[p])]>>
    /\ UNCHANGED <<gpc, gmws, ggmw, gtable, gdocs, gcalls, regOthers>>

NextReg ==
    \/ \E m \in RouterMiddlewares : Use(m)
    \/ \E m \in GroupMiddlewares : GroupUse(m)
    \/ \E p \in RoutePaths, h \in HandlerFuncs : RouteCall(p, h)
    \/ GroupRouteCall(<<"/", "a">>, 2)
    \/ \E p \in RoutePaths \cup {PathGroup \o <<"/", "a">>} : Serve(p)

SpecReg == InitReg /\ [][NextReg]_vars

\* the registration calls for pattern p, by position in the call history
RegistrationsOf(p) ==
    {i \in DOMAIN gcalls : gcalls[i].op \in {"Route", "Group.Route"} /\ gcalls[i].path = p}

RECURSIVE Reverse(_)
Reverse(q) == IF q = <<>> THEN <<>> ELSE Reverse(Tail(q)) \o <<Head(q)>>

\* the middlewares added by calls of kind op before position i, in call order
AddedBefore(op, i) ==
    LET sel == SelectSeq(SubSeq(gcalls, 1, i - 1), LAMBDA c : c.op = op)
    IN  [j \in DOMAIN sel |-> sel[j].mw]

\* m_n, ..., m_1, g_k, ..., g_1, h for the registration at position i
ExpectedOrder(i) ==
    Reverse(AddedBefore("Use", i))
        \o (IF gcalls[i].op = "Group.Route" THEN Reverse(AddedBefore("Group.Use", i))
            ELSE <<>>)
        \o <<gcalls[i].h>>

\* C23: for router middlewares m_1..m_n added by Use and group middlewares
\* g_1..g_k added by the group's Use, a route registered afterwards (once)
\* enters, on a request, m_n, ..., m_1, then g_k, ..., g_1, then h.
C23_MiddlewareOrder ==
    \A t \in DOMAIN gtrace :
        \A i \in RegistrationsOf(gtrace[t].path) :
            RegistrationsOf(gtrace[t].path) = {i} =>
                gtrace[t].entered = ExpectedOrder(i)

\* reached for C23: two router and two group middlewares, then a group route
C23_Witness ==
    /\ gtrace # <<>>
    /\ gtrace[1].path = PathGroup \o <<"/", "a">>
    /\ RegistrationsOf(gtrace[1].path) = {5}
    /\ gtrace[1].entered = <<"m2", "m1", "g2", "g1", 2>>

\* C24: a pattern is inserted at most once: a Route call with a pattern that
\* was registered by an earlier call leaves the route table and the
\* documentation list unchanged.
C24_InsertOnce ==
    [][(/\ Len(gcalls') = Len(gcalls) + 1
        /\ gcalls'[Len(gcalls')].op \in {"Route", "Group.Route"}
        /\ RegistrationsOf(gcalls'[Len(gcalls')].path) # {})
            => (gtable' = gtable /\ gdocs' = gdocs)]_vars

\* the Use(m) calls made before position i of the call history
UsedBefore(m, i) ==
    {j \in 1..(i - 1) : gcalls[j].op = "Use" /\ gcalls[j].mw = m}

\* how many times the invoked handler entered middleware m (the last
\* function entered is the base handler)
TimesEntered(entered, m) ==
    Cardinality({k \in 1..(Len(entered) - 1) : entered[k] = m})

\* a request to a pattern registered once passes through m once for every
\* Use(m) made before the registration, and for no Use(m) made after it
C36_OnlyEarlierUses ==
    \A t \in DOMAIN gtrace :
        \A i \in RegistrationsOf(gtrace[t].path) :
            RegistrationsOf(gtrace[t].path) = {i} =>
                \A m \in RouterMiddlewares :
                    TimesEntered(gtrace[t].entered, m) = Cardinality(UsedBefore(m, i))

\* a Use call leaves the route table and the documentation list as they were
C36_UseKeepsTable ==
    (Len(gcalls') = Len(gcalls) + 1 /\ gcalls'[Len(gcalls')].op = "Use")
        => (gtable' = gtable /\ gdocs' = gdocs)

\* C36: middlewares are applied at registration, not per request: Use(m)
\* after Route(p, h) leaves the handler stored for p unchanged, so a request
\* to p does not pass through m, while a route registered after the Use
\* call is stored wrapped in m and a request to it does.
C36_AppliedAtRegistration ==
    [](C36_OnlyEarlierUses) /\ [][C36_UseKeepsTable]_vars

\* reached for C36: Route(/a, h), then Use(m1), then Route(/:x, h); the
\* request to /a enters h alone, and /:x is stored wrapped in m1
C36_Witness ==
    /\ Len(gcalls) = 3
    /\ gcalls[1] = [op |-> "Route", path |-> <<"/", "a">>, mw |-> "", h |-> 1]
    /\ gcalls[2] = [op |-> "Use", path |-> <<>>, mw |-> "m1", h |-> 0]
    /\ gcalls[3] = [op |-> "Route", path |-> <<"/", ":", "x">>, mw |-> "", h |-> 1]
    /\ gtrace = <<[path |-> <<"/", "a">>, entered |-> <<1>>]>>
    /\ Entered(gtable[<<"/", ":", "x">>]) = <<"m1", 1>>

-----------------------------------------------------------------------------
(* ServerStatic: the handler of basePath + "/*"                            *)

\* the character of an octet value, for the octets the requests can encode
CharOf(n) ==
    CASE n = 45 -> "-" [] n = 46 -> "." [] n = 47 -> "/" [] n = 97 -> "a" [] n = 119 -> "w"
      [] OTHER -> "?"

\* url.PathUnescape: "%XX" becomes the octet XX; a "%" not followed by two
\* hex digits is an error
RECURSIVE PathUnescape(_)
PathUnescape(s) ==
    IF s = <<>> THEN [err |-> FALSE, val |-> <<>>]
    ELSE IF s[1] # "%"
    THEN LET r == PathUnescape(Tail(s))
         IN  [err |-> r.err, val |-> IF r.err THEN <<>> ELSE <<s[1]>> \o r.val]
    ELSE IF Len(s) < 3 \/ HexVal(s[2]) < 0 \/ HexVal(s[3]) < 0
    THEN [err |-> TRUE, val |-> <<>>]
    ELSE LET r == PathUnescape(SubSeq(s, 4, Len(s)))
         IN  [err |-> r.err,
              val |-> IF r.err THEN <<>>
                      ELSE <<CharOf(16 * HexVal(s[2]) + HexVal(s[3]))>> \o r.val]

\* the element stack of filepath.Clean after the segments segs
RECURSIVE CleanStack(_, _, _)
CleanStack(segs, stack, rooted) ==
    IF segs = <<>> THEN stack
    ELSE LET seg == Head(segs)
         IN  IF seg = <<>> \/ seg = <<".">> THEN CleanStack(Tail(segs), stack, rooted)
             ELSE IF seg = <<".", ".">>
             THEN IF stack # <<>> /\ stack[Len(stack)] # <<".", ".">>
                  THEN CleanStack(Tail(segs), SubSeq(stack, 1, Len(stack) - 1), rooted)
                  ELSE IF rooted THEN CleanStack(Tail(segs), stack, rooted)
                  ELSE CleanStack(Tail(segs), Append(stack, seg), rooted)
             ELSE CleanStack(Tail(segs), Append(stack, seg), rooted)

RECURSIVE JoinWith(_, _)
JoinWith(ss, sep) ==
    IF ss = <<>> THEN <<>>
    ELSE IF Len(ss) = 1 THEN ss[1]
    ELSE ss[1] \o sep \o JoinWith(Tail(ss), sep)

\* filepath.Clean (slash-separated paths)
Clean(path) ==
    IF path = <<>> THEN <<".">>
    ELSE LET rooted == path[1] = "/"
             out == (IF rooted THEN <<"/">> ELSE <<>>)
                      \o JoinWith(CleanStack(Split(path, <<"/">>), <<>>, rooted), <<"/">>)
         IN  IF out = <<>> THEN <<".">> ELSE out

\* filepath.Join of two elements
Join(a, b) ==
    IF a = <<>> /\ b = <<>> THEN <<>>
    ELSE IF a = <<>> THEN Clean(b)
    ELSE IF b = <<>> THEN Clean(a)
    ELSE Clean(a \o <<"/">> \o b)

\* the files and directories of the machine
FileSystem ==
    { <<"/">>, <<"/", "r">>, <<"/", "r", "/", "w">>, <<"/", "r", "/", "w", "/", "a">>,
      <<"/", "r", "/", "w", "-", "s">>, <<"/", "r", "/", "w", "-", "s", "/", "a">> }

BasePath == <<"/", "s">>

\* The handler ServerStatic registers under basePath + "/*", for fsRoot
\* already cleaned: the status it sets (0 = left to the default) and the path
\* it opens with os.Open or os.ReadDir (<<>> = none)
ServeFile(fsRoot, path) ==
    LET urlPath == TrimPrefix(path, BasePath)
        decodedPath == PathUnescape(urlPath)
    IN  IF decodedPath.err THEN [code |-> 400, open |-> <<>>]
        ELSE LET filePath == Join(fsRoot, decodedPath.val)
                 cleanPath == Clean(filePath)
             IN  IF ~HasPrefix(cleanPath, fsRoot) THEN [code |-> 403, open |-> <<>>]
                 ELSE IF cleanPath \notin FileSystem THEN [code |-> 404, open |-> <<>>]
                 ELSE IF \E f \in FileSystem : HasPrefix(f, cleanPath \o <<"/">>)
                 THEN [code |-> 0, open |-> cleanPath]
                 ELSE [code |-> 200, open |-> cleanPath]

MaxSegments == 3

PathSegments ==
    { <<"a">>, <<".">>, <<".", ".">>, <<"w", "-", "s">>, <<"w">>,
      <<"%", "2", "e", "%", "2", "E">>, <<"%", "2", "f", ".", ".">>, <<"%", "z">> }

RequestPaths ==
    {BasePath \o <<"/">> \o JoinWith(ss, <<"/">>) : ss \in SeqsUpTo(PathSegments, MaxSegments)}

InitStatic ==
    /\ spc = "request"
    /\ sroot \in {<<"/", "r", "/", "w">>, <<"/", "r", "/", "w", "/">>,
                 <<"/", "r", "/", ".", "/", "w">>}
    /\ sreqpath \in RequestPaths
    /\ scode = 0
    /\ sopen = <<>>
    /\ IdleEarly
    /\ IdleServe
    /\ IdleDisp
    /\ IdleReg
    /\ IdleBuff

\* a request whose path begins with basePath + "/" reaches the file handler
ServeStatic ==
    /\ spc = "request"
    /\ LET r == ServeFile(Clean(sroot), sreqpath)
       IN  scode' = r.code /\ sopen' = r.open
    /\ spc' = "served"
    /\ UNCHANGED <<sroot, sreqpath, staticOthers>>

NextStatic == ServeStatic

SpecStatic == InitStatic /\ [][NextStatic]_vars

\* path p lies in the directory tree rooted at root
InsideTree(p, root) == p = root \/ HasPrefix(p, root \o <<"/">>)

\* the path the request resolves to under fsRoot (<<>> for a bad escape)
ResolvedPath ==
    LET d == PathUnescape(TrimPrefix(sreqpath, BasePath))
    IN  IF d.err THEN <<>> ELSE Clean(Clean(sroot) \o <<"/">> \o d.val)

\* C26: for every request path under basePath, with ".." segments and
\* percent-encoded segments, the file or directory the handler opens lies
\* inside the directory tree rooted at fsRoot; a path resolving to a sibling
\* whose name merely starts with fsRoot's name is answered with 403.
C26_NoTraversal ==
    spc = "served" =>
        /\ sopen # <<>> => InsideTree(sopen, Clean(sroot))
        /\ (/\ ResolvedPath # <<>>
            /\ HasPrefix(ResolvedPath, Clean(sroot))
            /\ ~InsideTree(ResolvedPath, Clean(sroot))) => scode = 403

-----------------------------------------------------------------------------
(* BuffReader.Read                                                         *)

\* stands for br.chunkSize (4096 in the source), scaled down so that a read
\* takes several chunks
ChunkSize == 2

InitBuff ==
    /\ upc = "call"
    /\ usrc \in SeqsUpTo(Octets, MaxMsgLen)
    /\ ueof \in {"after", "with"}
    /\ ulen \in 1..(MaxMsgLen + 1)
    /\ umax \in {MaxMsgLen - 1, MaxMsgLen}
    /\ uread = 0
    /\ ubuf = <<>>
    /\ ures = <<>>
    /\ uerr = ""
    /\ IdleEarly
    /\ IdleServe
    /\ IdleDisp
    /\ IdleReg
    /\ IdleStatic

\* entry of Read: the size check, then buf is allocated
BuffEnter ==
    /\ upc = "call"
    /\ IF ulen > umax
       THEN upc' = "done" /\ uerr' = "ErrBodyMaxSize"
       ELSE upc' = "loop" /\ uerr' = ""
    /\ UNCHANGED <<usrc, ueof, ulen, umax, uread, ubuf, ures, buffOthers>>

\* One iteration of `for read < br.len`: br.Reader.Read fills n octets of
\* buf[read : read+chunk].  A reader with nothing left returns (0, io.EOF); one
\* that hands out its last octets returns them with a nil error or, as
\* io.Reader allows, together with io.EOF.
BuffLoop(n) ==
    /\ upc = "loop"
    /\ uread < ulen
    /\ LET chunk == Min(ChunkSize, ulen - uread)
           eof == IF usrc = <<>> THEN TRUE ELSE (n = Len(usrc) /\ ueof = "with")
           read == uread + n
       IN  /\ n <= chunk
           /\ n <= Len(usrc)
           /\ (n = 0) <=> (usrc = <<>>)
           /\ uread' = read
           /\ ubuf' = ubuf \o SubSeq(usrc, 1, n)
           /\ usrc' = SubSeq(usrc, n + 1, Len(usrc))
           /\ IF eof
              THEN /\ upc' = "done"
                   /\ ures' = <<>>
                   /\ uerr' = IF read < ulen THEN "unexpected EOF" ELSE "EOF"
              ELSE IF read < ulen
              THEN upc' = "loop" /\ ures' = ures /\ uerr' = uerr
              ELSE upc' = "done" /\ ures' = ubuf' /\ uerr' = ""
    /\ UNCHANGED <<ueof, ulen, umax, buffOthers>>

NextBuff == BuffEnter \/ \E n \in 0..ChunkSize : BuffLoop(n)

SpecBuff == InitBuff /\ [][NextBuff]_vars

\* the octets of the source: those consumed so far, then those left
SourceData == ubuf \o usrc

\* C27: BuffReader.Read returns exactly the len octets of the source,
\* identical to the input, however the underlying reader partitions them
\* across Read calls (the final octets delivered together with end-of-stream
\* included); it returns ErrBodyMaxSize when len exceeds maxSize and
\* io.ErrUnexpectedEOF when the source ends before len octets.
C27_BuffReaderExact ==
    upc = "done" =>
        IF ulen > umax THEN uerr = "ErrBodyMaxSize"
        ELSE IF Len(SourceData) < ulen THEN uerr = "unexpected EOF"
        ELSE uerr = "" /\ ures = SubSeq(SourceData, 1, ulen)

-----------------------------------------------------------------------------
(* chunkedReader on streams a peer framed by hand: every chunk is a size    *)
(* line, some data octets and a terminator, each drawn from a pool that     *)
(* holds malformed forms next to the well-formed one.  In this              *)
(* specification cparts holds the chunks as the peer framed them and cmsg   *)
(* the data octets they carry.                                              *)

\* tokens of a size line: two valid sizes, then the empty token, a letter
\* that is no hex digit, and the two signed forms
ValidTokens == {<<"1">>, <<"2">>}
InvalidTokens == {<<>>, <<"g">>, <<"-", "1">>, <<"-", "0">>}

\* what follows the data octets: CRLF, an octet before the CRLF, nothing
Terminators == {CRLF, <<"z">> \o CRLF, <<>>}

RawChunks ==
    {[tok |-> t, data |-> d, term |-> e] :
        t \in ValidTokens \cup InvalidTokens,
        d \in {<<"x">>, <<"x", "y">>},
        e \in Terminators}

\* a chunk whose size token is valid announces the length of its data
FramedChunks ==
    {c \in RawChunks :
        IF c.tok \in ValidTokens THEN ParseInt16(c.tok).val = Len(c.data)
        ELSE c.data = <<"x">>}

RECURSIVE RawEncode(_)
RawEncode(chunks) ==
    IF chunks = <<>> THEN <<"0">> \o CRLF \o CRLF
    ELSE Head(chunks).tok \o CRLF \o Head(chunks).data \o Head(chunks).term
         \o RawEncode(Tail(chunks))

RECURSIVE RawData(_)
RawData(chunks) ==
    IF chunks = <<>> THEN <<>> ELSE Head(chunks).data \o RawData(Tail(chunks))

InitRaw ==
    /\ cparts \in {<<c>> : c \in FramedChunks}
                  \cup {<<c, d>> : c \in FramedChunks, d \in FramedChunks}
    /\ cmsg = RawData(cparts)
    /\ cbuf \in 1..MaxBuf
    /\ csrc = RawEncode(cparts)
    /\ cout = <<>>
    /\ cdone = FALSE
    /\ cerr = ""
    /\ IdleConn
    /\ IdleRoute
    /\ IdleRest

SpecRaw == InitRaw /\ [][NextChunk]_vars

WellFramed(c) == c.tok \in ValidTokens /\ c.term = CRLF

\* what the Read calls on the first k chunks hand to the caller when each
\* chunk is well framed: copy(p, data) of each
RECURSIVE Delivered(_)
Delivered(k) ==
    IF k = 0 THEN <<>> ELSE Delivered(k - 1) \o Copy(cbuf, cparts[k].data)

\* the first chunk whose size token is invalid, all chunks before it well framed
BadSizeAt(i) ==
    /\ i \in 1..Len(cparts)
    /\ cparts[i].tok \in InvalidTokens
    /\ \A j \in 1..(i - 1) : WellFramed(cparts[j])

\* C32: a size line whose token is not a valid non-negative hexadecimal
\* number (empty, not hex, or with a leading '-') makes Read return the
\* invalid-chunk-size error: the loop ends with that error, never with a
\* panic or an end-of-stream, and the caller holds only what the chunks
\* before the bad line delivered.
C32_MalformedSize ==
    \A i \in 1..Len(cparts) :
        (BadSizeAt(i) /\ cerr # "")
            => (cerr = "invalid chunk size" /\ cout = Delivered(i - 1))

\* the first chunk whose data is not followed by CRLF, with a valid size
\* token and all chunks before it well framed
BadTerminatorAt(i) ==
    /\ i \in 1..Len(cparts)
    /\ cparts[i].tok \in ValidTokens
    /\ cparts[i].term # CRLF
    /\ \A j \in 1..(i - 1) : WellFramed(cparts[j])

\* C33: when the two octets after the data of a chunk are not CRLF (an
\* extra octet before a later CRLF, or no terminator at all), Read returns
\* the chunk-terminator error and that chunk's payload is not delivered.
C33_ExactTerminator ==
    \A i \in 1..Len(cparts) :
        (BadTerminatorAt(i) /\ cerr # "")
            => (cerr = "chunk terminator read error" /\ cout = Delivered(i - 1))

-----------------------------------------------------------------------------
(* The cap on the decoded body.  The decoder is documented to stop at       *)
(* 1 MiB of decoded octets; chunkedReader keeps no count of what it has     *)
(* delivered and conn.go declares no such limit, so the cap is stated here  *)
(* only, scaled so that the messages of SpecChunk run past it.              *)

MaxBodyBytes == 2

\* C34: the decoder never hands the caller more than MaxBodyBytes decoded
\* octets in total, and a message longer than that ends the loop with the
\* body-too-large error.
C34_BodyCap ==
    /\ Len(cout) <= MaxBodyBytes
    /\ (cerr # "" /\ Len(cmsg) > MaxBodyBytes) => cerr = "body too large"

-----------------------------------------------------------------------------
(* readFrame on frames whose length field the peer chose freely: the 7-bit  *)
(* form, the 16-bit extended form and the 64-bit extended form, each with   *)
(* any value that fits (RFC 6455 5.2 asks for the shortest form; a decoder  *)
(* reads whatever form it is given).                                        *)

LengthForms == {7, 16, 64}

\* a peer's single frame of opcode dop carrying message, its length written
\* in the given form, masked with key or unmasked when key is <<>>
FormFrame(first, form, message, key) ==
    LET n == Len(message)
        m == IF key = <<>> THEN 0 ELSE 128
        head == CASE form = 7 -> <<first, m + n>>
                  [] form = 16 -> <<first, m + 126>> \o PutUint16(n)
                  [] OTHER -> <<first, m + 127>> \o PutUint64(n)
        body == IF key = <<>> THEN message
                ELSE [i \in 1..n |-> Xor(message[i], key[((i - 1) % 4) + 1])]
    IN  head \o key \o body

FormLengths == {0, 1, 125, 126, 127, 128}

InitLen ==
    /\ dpc = "send"
    /\ dop = 1
    /\ dmsg \in {Message(n, seed) : n \in FormLengths, seed \in FrameSeeds}
    /\ dkey \in {<<>>, <<1, 2, 3, 4>>}
    /\ dwrite = "ok"
    /\ dsrc = <<>>
    /\ dres = <<>>
    /\ derr = ""
    /\ dpong = <<>>
    /\ IdleEarly
    /\ IdleServe
    /\ IdleReg
    /\ IdleStatic
    /\ IdleBuff

\* the peer sends one text frame in a form of its choice, alone or followed
\* by the first octets of a next frame
PeerSendForm ==
    /\ dpc = "send"
    /\ \E form \in LengthForms, next \in {<<>>, <<129, 0>>} :
        /\ form = 7 => Len(dmsg) <= 125
        /\ dsrc' = FormFrame(128 + dop, form, dmsg, dkey) \o next
    /\ dpc' = "recv"
    /\ UNCHANGED <<dop, dmsg, dkey, dwrite, dres, derr, dpong, dispOthers>>

NextLen == PeerSendForm \/ ReadOne

SpecLen == InitLen /\ [][NextLen]_vars

\* the length a frame on the stream declares, read as RFC 6455 5.2 lays it
\* out: one field, chosen by the 7-bit value
DeclaredLen(src) ==
    LET len7 == src[2] % 128
    IN  IF len7 <= 125 THEN len7
        ELSE IF len7 = 126 THEN Uint16(SubSeq(src, 3, 4))
        ELSE Uint64(SubSeq(src, 3, 10))

\* octets of the frame before its payload: two, the extended field, the key
HeaderLen(src) ==
    LET len7 == src[2] % 128
    IN  2 + (IF len7 = 126 THEN 2 ELSE IF len7 = 127 THEN 8 ELSE 0)
          + (IF src[2] >= 128 THEN 4 ELSE 0)

\* C35: readFrame takes the payload length exactly as the frame encodes it:
\* the 7-bit value up to 125, the 16-bit field after 126 (whatever its
\* value, 126 and 127 included), the 64-bit field after 127; it reads one
\* extended field only, so the call returns a payload of the declared
\* length and leaves on the stream exactly what follows the frame.
C35_LengthDecoded ==
    [][dpc = "recv" =>
        /\ derr' = ""
        /\ Len(dres') = DeclaredLen(dsrc)
        /\ dsrc' = SubSeq(dsrc, HeaderLen(dsrc) + DeclaredLen(dsrc) + 1, Len(dsrc))]_vars

-----------------------------------------------------------------------------
(* The Writer under a handler's calls alone: the handler of a routed        *)
(* request calls WriteHeader (any uint, 0 included), Headers.Add,           *)
(* WriteJson, Write and WriteHeaders, then returns and handleConn sends     *)
(* the response.                                                            *)

AppContentType == <<"C", "o", "n", "t", "e", "n", "t", "-", "T", "y", "p", "e">>
ContentType == <<"c", "o", "n", "t", "e", "n", "t", "-", "t", "y", "p", "e">>
ApplicationJson == <<"a", "p", "p", "l", "i", "c", "a", "t", "i", "o", "n", "/", "j", "s", "o", "n">>
TextPlain == <<"t", "e", "x", "t", "/", "p", "l", "a", "i", "n">>

\* values handed to WriteJson: integers, and a value encoding/json cannot
\* serialize (a channel)
JsonValues == {[kind |-> "int", val |-> 7], [kind |-> "int", val |-> 10],
               [kind |-> "chan", val |-> 0]}

\* the octets json.NewEncoder(w).Encode(v) passes to w.Write: the encoding
\* of v followed by a newline
Encode(v) == Itoa(v.val) \o <<LF>>

\* Writer.WriteJson(v): Headers.Add, then Encode, which writes through
\* w.Write unless v cannot be serialized
WriteJson(wr, st, v) ==
    LET w1 == [wr EXCEPT !.Headers = HeadersAdd(wr.Headers, AppContentType, ApplicationJson)]
    IN  IF v.kind = "chan"
        THEN {[w |-> w1, stream |-> st, n |-> 0, err |-> TRUE, p |-> <<>>]}
        ELSE {[w |-> r.w, stream |-> r.stream, n |-> r.n, err |-> r.err, p |-> Encode(v)]
                : r \in Write(w1, st, Encode(v))}

HandlerWriteJson(v) ==
    /\ InHandler
    /\ \E r \in WriteJson(w, stream, v) :
         /\ w' = r.w
         /\ stream' = r.stream
         /\ ops' = Called("WriteJson", r.p, <<>>, r.n, r.err)
    /\ UNCHANGED <<pc, peer, peerEnd, buffer, perr, req, routes, handler, ran,
                   closed, chunkVars, routeVars, restVars>>

WriterRequest == <<"G", " ", "/", "a", " ", "H", CR, LF, CR, LF>>
WriterCodes == {0, 201, 500}

\* handleConn after parserConn and parseRoute gave it a request and a handler
InitWriter ==
    /\ pc = "handler"
    /\ peer = <<>>
    /\ peerEnd = "eof"
    /\ buffer = WriterRequest
    /\ perr = ""
    /\ routes \in RouteTables
    /\ \E r \in parseRoute(routes, parser(HeaderBlock).Path) :
         /\ handler = r.handler
         /\ req = [parser(HeaderBlock) EXCEPT !.Params = r.params]
    /\ ran = TRUE
    /\ ops = <<>>
    /\ w = newWriter
    /\ stream = <<>>
    /\ closed = FALSE
    /\ IdleChunk
    /\ IdleRoute
    /\ IdleRest

NextWriter ==
    \/ \E c \in WriterCodes : HandlerWriteHeader(c)
    \/ HandlerAddHeader(<<AppContentType, TextPlain>>)
    \/ \E v \in JsonValues : HandlerWriteJson(v)
    \/ HandlerWrite(<<"x">>)
    \/ HandlerWriteHeaders
    \/ HandlerReturn
    \/ Finish

SpecWriter == InitWriter /\ [][NextWriter]_vars

\* the step is a WriteHeader call made after an earlier WriteHeader call
SecondWriteHeader ==
    /\ Len(ops') = Len(ops) + 1
    /\ Last(ops').op = "WriteHeader"
    /\ AppSetStatus

\* the code passed to the handler's first WriteHeader call
FirstCode ==
    LET i == CHOOSE k \in DOMAIN ops :
                 /\ ops[k].op = "WriteHeader"
                 /\ \A j \in 1..(k - 1) : ops[j].op # "WriteHeader"
    IN  ops[i].a

\* C37: WriteHeader sets the status on its first call only: for every pair
\* of codes c1, c2, after WriteHeader(c1) a call WriteHeader(c2) leaves the
\* writer as it was, with c1 as its status.
C37_FirstStatusWins ==
    [][SecondWriteHeader => (w' = w /\ Itoa(w.code) = FirstCode)]_vars

\* the value of the handler's last Headers.Add("Content-Type", v)
AppContentTypeValue ==
    LET i == CHOOSE k \in DOMAIN ops :
                 /\ ops[k].op = "Headers.Add" /\ ToLower(ops[k].a) = ContentType
                 /\ \A j \in (k + 1)..Len(ops) :
                        ~(ops[j].op = "Headers.Add" /\ ToLower(ops[j].a) = ContentType)
    IN  ops[i].b

\* all octets the handler passed to Write, by itself or through WriteJson
WrittenOrEncoded ==
    Concat([i \in DOMAIN ops |-> IF ops[i].op \in {"Write", "WriteJson"} THEN ops[i].a
                                 ELSE <<>>])

\* C38: WriteJson sets Content-Type: application/json only when the header
\* is absent: in a response sent by write() after a WriteJson call, no call
\* having failed, the Content-Type emitted is the one the handler set, if
\* it set one, and application/json otherwise, and the body holds the
\* serialized octets in the place a Write of them would have put them.
C38_JsonKeepsContentType ==
    (EmittedByWrite /\ WritesSucceeded /\ AppCalled("WriteJson")) =>
        /\ StreamHeader(ContentType) =
              {IF AppSetHeader(ContentType) THEN AppContentTypeValue ELSE ApplicationJson}
        /\ StreamBody = WrittenOrEncoded

-----------------------------------------------------------------------------
(* Run: the application registers on the main goroutine, then Run accepts   *)
(* connections and starts one handleConn goroutine for each.  Every step    *)
(* records which goroutine touched which object: the router's route table   *)
(* and middleware list, and the Request, Params and Writer of a connection. *)

MaxConns == 2

Conns == 1..MaxConns

\* the goroutine that builds the router and calls Run
Main == 0

ServePatterns == {<<"/", "a">>, <<"/", ":", "x">>}
ServePaths == {<<"/", "a">>, <<"/", "b">>, <<"/", "c", "/", "d">>}

\* &Request{Params: make(Params)} before parser fills it
NoRequest == [Path |-> <<>>, Params |-> EmptyMap]

Access(task, obj, owner, mode) == [task |-> task, obj |-> obj, owner |-> owner, mode |-> mode]

InitServe ==
    /\ kphase = "setup"
    /\ ktable = EmptyMap
    /\ kmws = <<>>
    /\ kpc = [c \in Conns |-> "none"]
    /\ kreq = [c \in Conns |-> NoRequest]
    /\ kw = [c \in Conns |-> newWriter]
    /\ kacc = {}
    /\ IdleEarly
    /\ IdleDisp
    /\ IdleReg
    /\ IdleStatic
    /\ IdleBuff

\* r.Use(mw) before Run
ServeUse(m) ==
    /\ kphase = "setup"
    /\ kmws = <<>>
    /\ kmws' = Append(kmws, m)
    /\ kacc' = {Access(Main, "mws", Main, "w")}
    /\ UNCHANGED <<kphase, ktable, kpc, kreq, kw, serveOthers>>

\* r.Route(path, handler) before Run: the handler of pattern number h
ServeRoute(path, h) ==
    /\ kphase = "setup"
    /\ ~hasRoute(ktable, path)
    /\ ktable' = Route(ktable, path, h)
    /\ kacc' = {Access(Main, "mws", Main, "r"), Access(Main, "table", Main, "w")}
    /\ UNCHANGED <<kphase, kmws, kpc, kreq, kw, serveOthers>>

\* Run(addrs, r): net.Listen, then the accept loop
RunStart ==
    /\ kphase = "setup"
    /\ ktable # EmptyMap
    /\ kphase' = "serving"
    /\ kacc' = {}
    /\ UNCHANGED <<ktable, kmws, kpc, kreq, kw, serveOthers>>

\* conn, err := l.Accept(); go handleConn(conn, r)
Accept(c) ==
    /\ kphase = "serving"
    /\ kpc[c] = "none"
    /\ kpc' = [kpc EXCEPT ![c] = "parse"]
    /\ kacc' = {}
    /\ UNCHANGED <<kphase, ktable, kmws, kreq, kw, serveOthers>>

\* req, err := parserConn(c) in the goroutine of connection c
ServeParse(c, path) ==
    /\ kpc[c] = "parse"
    /\ kreq' = [kreq EXCEPT ![c] = [Path |-> path, Params |-> EmptyMap]]
    /\ kpc' = [kpc EXCEPT ![c] = "route"]
    /\ kacc' = {Access(c, "req", c, "w")}
    /\ UNCHANGED <<kphase, ktable, kmws, kw, serveOthers>>

\* (mutant) parseRoute remembers the match under the request's path
ServeDispatchCached(c) ==
    /\ kpc[c] = "route"
    /\ \E r \in parseRoute(ktable, kreq[c].Path) :
         /\ kreq' = [kreq EXCEPT ![c].Params = r.params]
         /\ kw' = [kw EXCEPT ![c] = IF r.handler # 0 THEN newWriter
                                    ELSE [newWriter EXCEPT !.code = 404]]
         /\ kpc' = [kpc EXCEPT ![c] = IF r.handler # 0 THEN "handler" ELSE "finish"]
         /\ ktable' = IF r.handler # 0 THEN MapSet(ktable, kreq[c].Path, r.handler)
                      ELSE ktable
    /\ kacc' = {Access(c, "table", Main, "r"), Access(c, "table", Main, "w"),
                Access(c, "req", c, "r"), Access(c, "params", c, "w"),
                Access(c, "writer", c, "w")}
    /\ UNCHANGED <<kphase, kmws, serveOthers>>

\* w := newWriter(c); handler := r.parseRoute(req): parseRoute ranges over
\* r.handlerList and adds to req.Params; no match sets w.code
ServeDispatch(c) ==
    /\ kpc[c] = "route"
    /\ \E r \in parseRoute(ktable, kreq[c].Path) :
         /\ kreq' = [kreq EXCEPT ![c].Params = r.params]
         /\ kw' = [kw EXCEPT ![c] = IF r.handler # 0 THEN newWriter
                                    ELSE [newWriter EXCEPT !.code = 404]]
         /\ kpc' = [kpc EXCEPT ![c] = IF r.handler # 0 THEN "handler" ELSE "finish"]
    /\ kacc' = {Access(c, "table", Main, "r"), Access(c, "req", c, "r"),
                Access(c, "params", c, "w"), Access(c, "writer", c, "w")}
    /\ UNCHANGED <<kphase, ktable, kmws, serveOthers>>

\* handler(req, w): a handler that answers with the path it was asked for
ServeHandler(c) ==
    /\ kpc[c] = "handler"
    /\ kw' = [kw EXCEPT ![c] = BufferBody(WriteHeader(kw[c], 201), kreq[c].Path)]
    /\ kpc' = [kpc EXCEPT ![c] = "finish"]
    /\ kacc' = {Access(c, "req", c, "r"), Access(c, "params", c, "r"),
                Access(c, "writer", c, "w")}
    /\ UNCHANGED <<kphase, ktable, kmws, kreq, serveOthers>>

\* w.write() and the deferred c.Close()
ServeFinish(c) ==
    /\ kpc[c] = "finish"
    /\ kw' = [kw EXCEPT ![c].headersSent = TRUE]
    /\ kpc' = [kpc EXCEPT ![c] = "closed"]
    /\ kacc' = {Access(c, "writer", c, "r"), Access(c, "writer", c, "w")}
    /\ UNCHANGED <<kphase, ktable, kmws, kreq, serveOthers>>

NextServe ==
    \/ ServeUse("m1")
    \/ \E p \in ServePatterns : ServeRoute(p, 1)
    \/ RunStart
    \/ \E c \in Conns : Accept(c)
    \/ \E c \in Conns, p \in ServePaths : ServeParse(c, p)
    \/ \E c \in Conns : ServeDispatch(c)
    \/ \E c \in Conns : ServeHandler(c)
    \/ \E c \in Conns : ServeFinish(c)

SpecServe == InitServe /\ [][NextServe]_vars

\* no goroutine of a connection writes the router, and the Request, Params
\* and Writer of a connection are touched by its own goroutine only
C39_OwnAccessesOnly ==
    \A a \in kacc :
        /\ (a.obj \in {"table", "mws"} /\ a.task # Main) => a.mode = "r"
        /\ a.obj \in {"req", "params", "writer"} => a.task = a.owner

\* once Run accepts, the route table and the middleware list stay as they
\* are, and a step changes the Request and Writer of at most the connection
\* whose goroutine made it
C39_SharedFrozen ==
    /\ kphase = "serving" => (ktable' = ktable /\ kmws' = kmws)
    /\ \A c \in Conns :
        (kreq'[c] # kreq[c] \/ kw'[c] # kw[c]) => \A a \in kacc' : a.task = c

\* C39: with several connections in flight, the route table and the
\* middleware list are not written after serving starts (parseRoute and
\* handleConn read them), and the Request, Params and Writer of a
\* connection are read and written by the goroutine of that connection only.
C39_SharedImmutable ==
    [](C39_OwnAccessesOnly) /\ [][C39_SharedFrozen]_vars

\* reached for C39: two connections in flight on one router, one routed by
\* parameter with its handler not yet run, the other answered
C39_Witness ==
    /\ kphase = "serving"
    /\ kpc[1] = "handler"
    /\ kreq[1].Path = <<"/", "b">>
    /\ kreq[1].Params # EmptyMap
    /\ kpc[2] = "closed"
    /\ kreq[2].Path = <<"/", "a">>
    /\ kw[2].body = <<"/", "a">>
    /\ kw[2].headersSent

====
